---- MODULE Spec2Model ----
(***************************************************************************)
(* Rate ingestion and caching engine of valutatrade_hub:                   *)
(*   parser_service/api_clients.py  provider clients                       *)
(*   parser_service/storage.py      snapshot and history files             *)
(*   parser_service/updater.py      RatesUpdater.run_update                *)
(*   parser_service/scheduler.py    UpdateScheduler                        *)
(*   core/usecases.py               RateUseCases (staleness gate)           *)
(*                                                                         *)
(* Encodings.  An ISO-8601 instant n is the string Iso(n) = "T<n>"; any    *)
(* other string is not parseable.  Python's None is the string "None".     *)
(* A float rate is the fraction [n, d]; 1.0 / x swaps the two.  A file is  *)
(* a sequence of NChunks cells, one per buffer flush of json.dump; a cell  *)
(* written by a dump of payload w holds [w, k], k its position.            *)
(***************************************************************************)
EXTENDS Integers, Sequences, FiniteSets, TLC

VARIABLES
    now,      \* wall clock (datetime.now(timezone.utc))
    rates,    \* rates.json and rates.json.tmp
    hist,     \* exchange_rates.json and exchange_rates.json.tmp
    pc,       \* pc[t]: position of thread t
    loc,      \* loc[t]: locals of the run_update frame of thread t
    fd,       \* fd[t]: the file handle _atomic_write holds in thread t
    caller,   \* caller[t]: the frame that called run_update in thread t
    out,      \* out[t]: outcome of the last finished call of thread t
    cycles,   \* number of run_update calls started so far
    log,      \* observation: the pairs of the snapshot at the start, and the
              \* samples run through the merge loop, in order, each with the
              \* loop's decision
    crashed,  \* the process was killed
    sched     \* the UpdateScheduler: _stop_event, _thread, the threads that
              \* are alive, where the caller of start() and stop() stands, and
              \* the observation of the last call

vars == <<now, rates, hist, pc, loc, fd, caller, out, cycles, log, crashed, sched>>

\* ------------------------------------------------------------------ bounds
MaxTime == 2
MaxRate == 2
MaxCycles == 2
NChunks == 2
MaxTtl == 1

\* the two calls of _refresh_rates in get_exchange_rate
RefreshSites == 2

\* --------------------------------------------------------------- constants
None == "None"
Garbage == "garbage"
Threads == {"fg", "bg"}

CoinGecko == "CoinGecko"
ExchangeRateApi == "ExchangeRate-API"
Clients == <<CoinGecko, ExchangeRateApi>>

\* ParserConfig.load, config.py:39-72.  The two lists come from the settings
\* (parser_crypto_currencies, parser_fiat_currencies); with BTC in both, both
\* providers quote the pair BTC_USD.
base_currency == "USD"
crypto_currencies == <<"BTC">>
fiat_currencies == <<"BTC">>

Instants == 0..MaxTime
ProviderValues == 1..MaxRate

\* ------------------------------------------------------------- time stamps
Iso(n) == "T" \o ToString(n)

None_dt == [ok |-> FALSE, t |-> 0]

_iso_to_datetime(value) ==
    IF value = None \/ value = ""
    THEN None_dt
    ELSE IF \E n \in Instants : Iso(n) = value
         THEN [ok |-> TRUE, t |-> CHOOSE n \in Instants : Iso(n) = value]
         ELSE None_dt

_utc_now_iso(clock) == Iso(clock)

\* raw_value: None (field absent), an RFC-2822 date "R<n>", or another string
Rfc(n) == "R" \o ToString(n)

_normalize_timestamp(raw_value, clock) ==
    IF raw_value = None \/ raw_value = ""
    THEN _utc_now_iso(clock)
    ELSE IF \E n \in Instants : Rfc(n) = raw_value
         THEN Iso(CHOOSE n \in Instants : Rfc(n) = raw_value)
         ELSE raw_value

\* ----------------------------------------------------------------- samples
Pair(from_currency, to_currency) == from_currency \o "_" \o to_currency

RateSample(from_currency, to_currency, rate, source, timestamp) ==
    [from_currency |-> from_currency, to_currency |-> to_currency,
     rate |-> rate, source |-> source, timestamp |-> timestamp]

SamplePair(s) == Pair(s.from_currency, s.to_currency)

Float(v) == [n |-> v, d |-> 1]
Inverse(r) == [n |-> r.d, d |-> r.n]

PairKeys == {Pair(crypto_currencies[i], base_currency) : i \in DOMAIN crypto_currencies}
            \cup {Pair(fiat_currencies[i], base_currency) : i \in DOMAIN fiat_currencies}

\* -------------------------------------------------------- provider clients
\* What requests.get and the provider can answer.  kind:
\*   "transport"   requests.get raises RequestException
\*   "http"        status_code # 200
\*   "not_json"    status 200, the body is not JSON
\*   "not_object"  status 200, the body is JSON but not an object
\*   "ok"          status 200, the body is a JSON object
Quotes(codes) ==
    UNION {[S -> ProviderValues] : S \in SUBSET {codes[i] : i \in DOMAIN codes}}

FailureKinds == {"transport", "http", "not_json", "not_object"}

NoQuotes == [c \in {} |-> 0]

Failure(kind) ==
    [kind |-> kind, result |-> "success", rates_is_dict |-> TRUE,
     quotes |-> NoQuotes, time |-> None]

CoinGeckoResponses ==
    {Failure(k) : k \in FailureKinds}
    \cup {[kind |-> "ok", result |-> "success", rates_is_dict |-> TRUE,
           quotes |-> q, time |-> None] : q \in Quotes(crypto_currencies)}

RawTimes == {None, Garbage} \cup {Rfc(n) : n \in Instants}

ExchangeRateResponses ==
    {Failure(k) : k \in FailureKinds}
    \cup {[kind |-> "ok", result |-> "error", rates_is_dict |-> TRUE,
           quotes |-> NoQuotes, time |-> None],
          [kind |-> "ok", result |-> "success", rates_is_dict |-> FALSE,
           quotes |-> NoQuotes, time |-> None]}
    \cup {[kind |-> "ok", result |-> "success", rates_is_dict |-> TRUE,
           quotes |-> q, time |-> r] : q \in Quotes(fiat_currencies), r \in RawTimes}

ApiKeys == {None, "key"}

Raised(exc) == [exc |-> exc, samples |-> <<>>]
Returned(samples) == [exc |-> "none", samples |-> samples]

\* response.json() followed by the first payload.get(...)
JsonObject(response) ==
    IF response.kind = "not_json" THEN "ValueError"
    ELSE IF response.kind = "not_object" THEN "AttributeError"
    ELSE "none"

Quoted(codes, quotes) == SelectSeq(codes, LAMBDA c : c \in DOMAIN quotes)

CoinGeckoFetch(response, clock) ==
    IF response.kind = "transport" THEN Raised("ApiRequestError")
    ELSE IF response.kind = "http" THEN Raised("ApiRequestError")
    ELSE IF JsonObject(response) # "none" THEN Raised(JsonObject(response))
    ELSE LET present == Quoted(crypto_currencies, response.quotes)
         IN  Returned([i \in 1..Len(present) |->
                 RateSample(present[i], base_currency,
                            Float(response.quotes[present[i]]),
                            CoinGecko, _utc_now_iso(clock))])

ExchangeRateFetch(api_key, response, clock) ==
    IF api_key = None THEN Raised("ApiRequestError")
    ELSE IF response.kind = "transport" THEN Raised("ApiRequestError")
    ELSE IF response.kind = "http" THEN Raised("ApiRequestError")
    ELSE IF JsonObject(response) # "none" THEN Raised(JsonObject(response))
    ELSE IF response.result # "success" THEN Raised("ApiRequestError")
    ELSE IF ~response.rates_is_dict THEN Raised("ApiRequestError")
    ELSE LET timestamp == _normalize_timestamp(response.time, clock)
             present == SelectSeq(fiat_currencies,
                            LAMBDA c : c \in DOMAIN response.quotes
                                       /\ response.quotes[c] # 0)
         IN  Returned([i \in 1..Len(present) |->
                 RateSample(present[i], base_currency,
                            Inverse(Float(response.quotes[present[i]])),
                            ExchangeRateApi, timestamp)])

fetch_rates(client, api_key, response, clock) ==
    IF client = CoinGecko
    THEN CoinGeckoFetch(response, clock)
    ELSE ExchangeRateFetch(api_key, response, clock)

ResponsesOf(client) ==
    IF client = CoinGecko THEN CoinGeckoResponses ELSE ExchangeRateResponses

\* ------------------------------------------------------------------- files
\* A directory entry: exists, and the cells of its inode.
MissingFile == [exists |-> FALSE, cells |-> <<>>]
EmptyFile == [exists |-> TRUE, cells |-> <<>>]
Hole == [k |-> 0]

\* bytes that are not UTF-8 text
Bytes == [k |-> 0 - 1]

\* handle.read() of a file opened with encoding="utf-8" decodes every byte,
\* or raises UnicodeDecodeError
IsText(file) == \A i \in DOMAIN file.cells : file.cells[i].k >= 0

Cell(w, k) == [k |-> k, w |-> w]

\* json.dump(payload) run to the end, then close
Dumped(w) == [exists |-> TRUE, cells |-> [k \in 1..NChunks |-> Cell(w, k)]]

\* json.load: the text is one whole dump, or it raises JSONDecodeError
IsJson(file) ==
    /\ file.exists
    /\ Len(file.cells) = NChunks
    /\ \A k \in 1..NChunks : file.cells[k].k = k
    /\ \A k \in 1..NChunks : file.cells[k].w = file.cells[1].w

JsonOf(file) == file.cells[1].w

\* write(2) of one cell at offset k of an inode
WriteAt(cells, k, cell) ==
    [i \in 1..(IF k > Len(cells) THEN k ELSE Len(cells)) |->
        IF i = k THEN cell ELSE IF i <= Len(cells) THEN cells[i] ELSE Hole]

NoPairs == [key \in {} |-> 0]

Entry(rate, updated_at, source) ==
    [rate |-> rate, updated_at |-> updated_at, source |-> source]

\* fmt "flat": entries at the top level; "nested": under the key "pairs";
\* "list": a JSON value that is not an object
RatesJson(fmt, pairs, last_refresh) ==
    [fmt |-> fmt, pairs |-> pairs, last_refresh |-> last_refresh]

EmptySnapshot == [pairs |-> NoPairs, last_refresh |-> None]

\* what leaves load_snapshot and load_history, storage.py:33-37 and 68-72:
\* OSError and JSONDecodeError are caught, the UnicodeDecodeError of
\* json.load(handle) is not
ReadError(fs) ==
    IF fs.target.exists /\ ~IsText(fs.target) THEN "UnicodeDecodeError" ELSE "none"

\* data.get("pairs") is a dict: the document has a member "pairs" that is an
\* object, be it the section of the nested layout or an entry of that name
HasPairsSection(data) ==
    data.fmt = "nested" \/ (data.fmt = "flat" /\ "pairs" \in DOMAIN data.pairs)

PairsSection(data) == IF data.fmt = "nested" THEN data.pairs ELSE data.pairs["pairs"]

\* the top-level members other than "last_refresh" that are objects with a
\* member "rate": storage.py:45-50, database.py:211-216
TopLevelEntries(data) ==
    [key \in {k \in DOMAIN data.pairs \ {"last_refresh"} : "rate" \in DOMAIN data.pairs[k]}
        |-> data.pairs[key]]

load_snapshot(fs) ==
    IF ~fs.target.exists THEN EmptySnapshot
    ELSE IF ~IsJson(fs.target) THEN EmptySnapshot
    ELSE IF JsonOf(fs.target).fmt = "list" THEN EmptySnapshot
    ELSE LET data == JsonOf(fs.target)
         IN  [pairs |-> IF HasPairsSection(data) THEN PairsSection(data)
                        ELSE TopLevelEntries(data),
              last_refresh |-> data.last_refresh]

\* mutant: the payload is written without its last_refresh
write_snapshot_payload_unmarked(pairs, last_refresh) ==
    RatesJson("flat", [key \in DOMAIN pairs \ {"last_refresh"} |-> pairs[key]], None)

\* payload = {key: value ...}; payload["last_refresh"] = last_refresh: the
\* member "last_refresh" of the document is the marker, whatever pairs held
write_snapshot_payload(pairs, last_refresh) ==
    RatesJson("flat", [key \in DOMAIN pairs \ {"last_refresh"} |-> pairs[key]],
              last_refresh)

\* fmt "list": a JSON list of records; "object": another JSON value
HistoryJson(fmt, records) == [fmt |-> fmt, records |-> records]

load_history(fs) ==
    IF ~fs.target.exists THEN <<>>
    ELSE IF ~IsJson(fs.target) THEN <<>>
    ELSE IF JsonOf(fs.target).fmt # "list" THEN <<>>
    ELSE JsonOf(fs.target).records

Ids(history) == {history[i].id : i \in DOMAIN history}

RECURSIVE AppendNew(_, _)
AppendNew(history, records) ==
    IF records = <<>> THEN history
    ELSE IF Head(records).id \in Ids(history)
         THEN AppendNew(history, Tail(records))
         ELSE AppendNew(Append(history, Head(records)), Tail(records))

\* mutant: no check of existing_ids
append_history_no_dedupe(history, records) == history \o records

\* mutant: the loaded history is dropped, only the new records are dumped
append_history_overwrite(history, records) == AppendNew(<<>>, records)

\* append_history up to its _atomic_write: the list it is about to dump
append_history_payload(history, records) == AppendNew(history, records)

\* ----------------------------------------------------------------- updater
Lower(name) ==
    CASE name = "CoinGecko" -> "coingecko"
      [] name = "COINGECKO" -> "coingecko"
      [] name = "ExchangeRate-API" -> "exchangerate-api"
      [] OTHER -> name

SourceFilters == {None, "COINGECKO", "kraken"}

\* mutant: the name is compared as it is written
ActiveClientsExact(source_filter) ==
    IF source_filter # None /\ source_filter # ""
    THEN SelectSeq(Clients, LAMBDA c : c = source_filter)
    ELSE Clients

ActiveClients(source_filter) ==
    IF source_filter # None /\ source_filter # ""
    THEN SelectSeq(Clients, LAMBDA c : Lower(c) = Lower(source_filter))
    ELSE Clients

\* mutant: the sample that arrives last wins
AcceptsArrivalOrder(current_ts, sample_ts) == TRUE

\* updater.py:116, "if not current_ts or sample_ts >= current_ts"
Accepts(current_ts, sample_ts) == ~current_ts.ok \/ sample_ts >= current_ts.t

HistoryRecord(sample) ==
    [id |-> sample.from_currency \o "_" \o sample.to_currency \o "_" \o sample.timestamp,
     from_currency |-> sample.from_currency,
     to_currency |-> sample.to_currency,
     rate |-> sample.rate,
     timestamp |-> sample.timestamp,
     source |-> sample.source]

Put(pairs, key, entry) ==
    [k \in DOMAIN pairs \cup {key} |-> IF k = key THEN entry ELSE pairs[k]]

\* the loop "for sample in aggregated_samples"; acc.trace is the observation
\* of what the loop decided for each sample
RECURSIVE MergeLoop(_, _, _)
MergeLoop(samples, acc, clock) ==
    IF samples = <<>> THEN acc
    ELSE LET sample == Head(samples)
             pair_key == SamplePair(sample)
             current_ts == IF pair_key \in DOMAIN acc.merged_pairs
                           THEN _iso_to_datetime(acc.merged_pairs[pair_key].updated_at)
                           ELSE None_dt
             parsed == _iso_to_datetime(sample.timestamp)
             sample_ts == IF parsed.ok THEN parsed.t ELSE clock
             accept == Accepts(current_ts, sample_ts)
         IN  MergeLoop(Tail(samples),
                 [merged_pairs |->
                      IF accept
                      THEN Put(acc.merged_pairs, pair_key,
                               Entry(sample.rate, sample.timestamp, sample.source))
                      ELSE acc.merged_pairs,
                  updated_pairs |->
                      IF accept /\ pair_key \notin
                             {acc.updated_pairs[i] : i \in DOMAIN acc.updated_pairs}
                      THEN Append(acc.updated_pairs, pair_key)
                      ELSE acc.updated_pairs,
                  history_records |-> Append(acc.history_records, HistoryRecord(sample)),
                  trace |-> Append(acc.trace, [sample |-> sample, accepted |-> accept])],
                 clock)

\* mutant: a history record only for the samples the loop accepts
MergeAcceptedOnly(pairs_snapshot, aggregated_samples, clock) ==
    LET m == MergeLoop(aggregated_samples,
                       [merged_pairs |-> pairs_snapshot, updated_pairs |-> <<>>,
                        history_records |-> <<>>, trace |-> <<>>],
                       clock)
        kept == SelectSeq([i \in 1..Len(m.trace) |-> i], LAMBDA i : m.trace[i].accepted)
    IN  [m EXCEPT !.history_records = [j \in 1..Len(kept) |-> m.history_records[kept[j]]]]

\* mutant: updated_pairs lists every collected pair, accepted or not
MergeListsCollected(pairs_snapshot, aggregated_samples, clock) ==
    LET m == MergeLoop(aggregated_samples,
                       [merged_pairs |-> pairs_snapshot, updated_pairs |-> <<>>,
                        history_records |-> <<>>, trace |-> <<>>],
                       clock)
        first == SelectSeq([i \in 1..Len(m.trace) |-> i],
                     LAMBDA i : \A j \in 1..(i - 1) :
                         SamplePair(m.trace[j].sample) # SamplePair(m.trace[i].sample))
    IN  [m EXCEPT !.updated_pairs =
            [k \in 1..Len(first) |-> SamplePair(m.trace[first[k]].sample)]]

\* mutant: the merge starts from an empty table
MergeFromEmpty(pairs_snapshot, aggregated_samples, clock) ==
    MergeLoop(aggregated_samples,
              [merged_pairs |-> NoPairs, updated_pairs |-> <<>>,
               history_records |-> <<>>, trace |-> <<>>],
              clock)

Merge(pairs_snapshot, aggregated_samples, clock) ==
    MergeLoop(aggregated_samples,
              [merged_pairs |-> pairs_snapshot, updated_pairs |-> <<>>,
               history_records |-> <<>>, trace |-> <<>>],
              clock)

\* max() of Python strings: the strings of this model are "T<n>" and
\* "garbage", and "T..." < "g..." character by character
StrKey(ts) == IF _iso_to_datetime(ts).ok THEN _iso_to_datetime(ts).t ELSE MaxTime + 1

_best_timestamp(samples) ==
    IF samples = <<>> THEN None
    ELSE LET timestamps == {samples[i].timestamp : i \in DOMAIN samples}
         IN  CHOOSE ts \in timestamps : \A other \in timestamps : StrKey(other) <= StrKey(ts)

\* mutant: no fallback to the clock
LastRefreshNoFallback(samples, clock) == _best_timestamp(samples)

LastRefresh(samples, clock) ==
    IF _best_timestamp(samples) = None
    THEN _utc_now_iso(clock)
    ELSE _best_timestamp(samples)

\* ------------------------------------------------------------ thread state
NoStats == [c \in {} |-> 0]

IdleLoc ==
    [source_filter |-> None, active |-> <<>>, idx |-> 0, invoked |-> <<>>,
     aggregated |-> <<>>, errors |-> <<>>, source_stats |-> NoStats,
     snapshot |-> EmptySnapshot, merged_pairs |-> NoPairs, updated_pairs |-> <<>>,
     history_records |-> <<>>, last_refresh |-> None, history |-> <<>>]

ClosedFd == [where |-> "none", pos |-> 0]

NoResult == [updated_pairs |-> <<>>, errors |-> <<>>, last_refresh |-> None,
             source_stats |-> NoStats]

UpdateResult(l) ==
    [updated_pairs |-> l.updated_pairs, errors |-> l.errors,
     last_refresh |-> l.last_refresh, source_stats |-> l.source_stats]

\* outcome of a call: what it was, what it raised, what it returned, and the
\* observation of its filter, of which clients it was to invoke, which it
\* did invoke and which of them raised ApiRequestError
NoOut == [call |-> "none", exc |-> "none", result |-> NoResult,
          source_filter |-> None, active |-> <<>>, invoked |-> <<>>, errors |-> <<>>]

RunOut(l, exc, result) ==
    [call |-> "run_update", exc |-> exc, result |-> result,
     source_filter |-> l.source_filter, active |-> l.active,
     invoked |-> l.invoked, errors |-> l.errors]

\* UpdateScheduler.__post_init__, scheduler.py:20-22
NoSched == [_stop_event |-> FALSE, _thread |-> None, alive |-> {},
            ctl |-> "idle", last |-> "none"]

NoCaller == [frame |-> "none", from_currency |-> "", to_currency |-> "",
             ttl_seconds |-> 0, refreshed |-> "none", refreshes |-> 0]

SnapPcs == {"snap_open", "snap_write", "snap_rename"}
HistPcs == {"hist_open", "hist_write", "hist_rename"}

\* ------------------------------------------------------------ file actions
\* open(temp_path, "w"): create, or truncate the inode the name points to
FsOpen(fs) == [fs EXCEPT !.tmp = EmptyFile]

\* mutant: the dump goes into the target itself, as Database._save_json does
FsWriteInPlace(fs, where, k, cell) ==
    [fs EXCEPT !.target = [exists |-> TRUE, cells |-> WriteAt(@.cells, k, cell)]]

\* one buffer flush through a handle that points at `where`
FsWrite(fs, where, k, cell) ==
    IF where = "tmp" THEN [fs EXCEPT !.tmp.cells = WriteAt(@, k, cell)]
    ELSE IF where = "target" THEN [fs EXCEPT !.target.cells = WriteAt(@, k, cell)]
    ELSE fs

\* mutant: the temporary file is left where it is
FsRenameDropped(fs) == fs

\* temp_path.replace(target): rename(2)
FsRename(fs) == [target |-> fs.tmp, tmp |-> MissingFile]

\* what rename(2) does to the handles other threads hold on the two inodes
Renamed(h) ==
    IF h.where = "tmp" THEN [h EXCEPT !.where = "target"]
    ELSE IF h.where = "target" THEN [h EXCEPT !.where = "orphan"]
    ELSE h

FdsAfterRename(t, group) ==
    [u \in Threads |->
        IF u = t THEN ClosedFd
        ELSE IF pc[u] \in group THEN Renamed(fd[u]) ELSE fd[u]]

\* -------------------------------------------------------------- run_update
\* run_update is left with frame l, by return (exc = "none") or by an
\* exception: back to the caller's frame (update_rates, get_exchange_rate or
\* _run_loop)
Finish(t, l, exc, result) ==
    /\ loc' = [loc EXCEPT ![t] = IdleLoc]
    /\ out' = [out EXCEPT ![t] = RunOut(l, exc, result)]
    /\ IF caller[t].frame = "none"
       THEN /\ pc' = [pc EXCEPT ![t] = "idle"]
            /\ caller' = caller
       ELSE /\ pc' = [pc EXCEPT ![t] =
                  IF caller[t].frame = "scheduler" THEN "loop_resume" ELSE "gate_resume"]
            /\ caller' = [caller EXCEPT ![t].refreshed = exc]

\* updater.py:65-82, with at least one active client
Begun(source_filter) ==
    [IdleLoc EXCEPT !.source_filter = source_filter,
                    !.active = ActiveClients(source_filter), !.idx = 1]

Begin(t, source_filter) ==
    /\ cycles' = cycles + 1
    /\ loc' = [loc EXCEPT ![t] = Begun(source_filter)]
    /\ pc' = [pc EXCEPT ![t] = "fetch"]

\* a direct call of run_update: update_rates, usecases.py:513
RunUpdate(t, source_filter) ==
    /\ ~crashed
    /\ pc[t] = "idle"
    /\ cycles < MaxCycles
    /\ IF ActiveClients(source_filter) = <<>>
       THEN /\ cycles' = cycles + 1
            /\ out' = [out EXCEPT ![t] =
                    RunOut([IdleLoc EXCEPT !.source_filter = source_filter],
                           "ApiRequestError", NoResult)]
            /\ UNCHANGED <<pc, loc>>
       ELSE /\ Begin(t, source_filter)
            /\ out' = [out EXCEPT ![t] = NoOut]
    /\ UNCHANGED <<now, rates, hist, fd, caller, log, crashed, sched>>

\* mutant: a client that failed gets no source_stats entry
FetchedNoZero(l, got) ==
    LET client == l.active[l.idx]
        called == [l EXCEPT !.invoked = Append(@, client), !.idx = @ + 1]
    IN  IF got.exc = "none"
        THEN [called EXCEPT !.aggregated = @ \o got.samples,
                            !.source_stats = Put(@, client, Len(got.samples))]
        ELSE [called EXCEPT !.errors = Append(@, [source |-> client,
                                                  message |-> "detail"])]

\* the frame after fetch_rates of l.active[l.idx] has returned or has raised
\* ApiRequestError: updater.py:86-95
Fetched(l, got) ==
    LET client == l.active[l.idx]
        called == [l EXCEPT !.invoked = Append(@, client), !.idx = @ + 1]
    IN  IF got.exc = "none"
        THEN [called EXCEPT !.aggregated = @ \o got.samples,
                            !.source_stats = Put(@, client, Len(got.samples))]
        ELSE [called EXCEPT !.errors = Append(@, [source |-> client,
                                                  message |-> "detail"]),
                            !.source_stats = Put(@, client, 0)]

\* one iteration of "for client in active_clients", updater.py:84-95
Fetch(t) ==
    /\ ~crashed
    /\ pc[t] = "fetch"
    /\ LET l == loc[t]
           client == l.active[l.idx]
       IN  \E api_key \in ApiKeys, response \in ResponsesOf(client) :
             LET got == fetch_rates(client, api_key, response, now)
             IN  IF got.exc \in {"none", "ApiRequestError"}
                 THEN /\ loc' = [loc EXCEPT ![t] = Fetched(l, got)]
                      /\ pc' = [pc EXCEPT ![t] =
                            IF l.idx = Len(l.active) THEN "merge" ELSE "fetch"]
                      /\ UNCHANGED <<out, caller>>
                 ELSE \* not an ApiRequestError: it leaves the loop and run_update
                      Finish(t, [l EXCEPT !.invoked = Append(@, client)],
                             got.exc, NoResult)
    /\ UNCHANGED <<now, rates, hist, fd, cycles, log, crashed, sched>>

\* mutant: the table is written back before the all-failed test
MergeStepWritesFirst(t) ==
    /\ ~crashed
    /\ pc[t] = "merge"
    /\ rates' = [target |-> Dumped(write_snapshot_payload(load_snapshot(rates).pairs,
                                                          _utc_now_iso(now))),
                 tmp |-> MissingFile]
    /\ Finish(t, loc[t],
              IF loc[t].aggregated = <<>> /\ loc[t].errors # <<>>
              THEN "ApiRequestError" ELSE "none",
              NoResult)
    /\ UNCHANGED <<now, hist, fd, cycles, log, crashed, sched>>

\* updater.py:97-146: the all-failed check, load_snapshot, the merge loop
MergeStep(t) ==
    /\ ~crashed
    /\ pc[t] = "merge"
    /\ LET l == loc[t]
       IN  IF l.aggregated = <<>> /\ l.errors # <<>>
           THEN /\ Finish(t, l, "ApiRequestError", NoResult)
                /\ log' = log
           ELSE IF ReadError(rates) # "none"
           THEN /\ Finish(t, l, ReadError(rates), NoResult)
                /\ log' = log
           ELSE LET snapshot == load_snapshot(rates)
                    m == Merge(snapshot.pairs, l.aggregated, now)
                IN  /\ loc' = [loc EXCEPT ![t] =
                          [l EXCEPT !.snapshot = snapshot,
                                    !.merged_pairs = m.merged_pairs,
                                    !.updated_pairs = m.updated_pairs,
                                    !.history_records = m.history_records,
                                    !.last_refresh = LastRefresh(l.aggregated, now)]]
                    /\ pc' = [pc EXCEPT ![t] = "snap_open"]
                    /\ log' = [log EXCEPT !.seq = @ \o m.trace]
                    /\ UNCHANGED <<out, caller>>
    /\ UNCHANGED <<now, rates, hist, fd, cycles, crashed, sched>>

\* write_snapshot, storage.py:57-62, and _atomic_write, storage.py:23-27
SnapOpen(t) ==
    /\ ~crashed
    /\ pc[t] = "snap_open"
    /\ rates' = FsOpen(rates)
    /\ fd' = [fd EXCEPT ![t] = [where |-> "tmp", pos |-> 1]]
    /\ pc' = [pc EXCEPT ![t] = "snap_write"]
    /\ UNCHANGED <<now, hist, loc, caller, out, cycles, log, crashed, sched>>

SnapWrite(t) ==
    /\ ~crashed
    /\ pc[t] = "snap_write"
    /\ rates' = FsWrite(rates, fd[t].where, fd[t].pos,
                        Cell(write_snapshot_payload(loc[t].merged_pairs,
                                                    loc[t].last_refresh), fd[t].pos))
    /\ IF fd[t].pos = NChunks
       THEN /\ fd' = [fd EXCEPT ![t] = ClosedFd]
            /\ pc' = [pc EXCEPT ![t] = "snap_rename"]
       ELSE /\ fd' = [fd EXCEPT ![t].pos = @ + 1]
            /\ pc' = pc
    /\ UNCHANGED <<now, hist, loc, caller, out, cycles, log, crashed, sched>>

SnapRename(t) ==
    /\ ~crashed
    /\ pc[t] = "snap_rename"
    /\ IF rates.tmp.exists
       THEN /\ rates' = FsRename(rates)
            /\ fd' = FdsAfterRename(t, SnapPcs)
            /\ pc' = [pc EXCEPT ![t] = "hist_load"]
            /\ UNCHANGED <<loc, caller, out>>
       ELSE /\ Finish(t, loc[t], "FileNotFoundError", NoResult)
            /\ UNCHANGED <<rates, fd>>
    /\ UNCHANGED <<now, hist, cycles, log, crashed, sched>>

\* append_history, storage.py:79-99
HistLoad(t) ==
    /\ ~crashed
    /\ pc[t] = "hist_load"
    /\ IF loc[t].history_records = <<>>
       THEN pc' = [pc EXCEPT ![t] = "return"] /\ UNCHANGED <<loc, caller, out>>
       ELSE IF ReadError(hist) # "none"
       THEN Finish(t, loc[t], ReadError(hist), NoResult)
       ELSE /\ loc' = [loc EXCEPT ![t].history =
                    append_history_payload(load_history(hist), loc[t].history_records)]
            /\ pc' = [pc EXCEPT ![t] = "hist_open"]
            /\ UNCHANGED <<caller, out>>
    /\ UNCHANGED <<now, rates, hist, fd, cycles, log, crashed, sched>>

HistOpen(t) ==
    /\ ~crashed
    /\ pc[t] = "hist_open"
    /\ hist' = FsOpen(hist)
    /\ fd' = [fd EXCEPT ![t] = [where |-> "tmp", pos |-> 1]]
    /\ pc' = [pc EXCEPT ![t] = "hist_write"]
    /\ UNCHANGED <<now, rates, loc, caller, out, cycles, log, crashed, sched>>

HistWrite(t) ==
    /\ ~crashed
    /\ pc[t] = "hist_write"
    /\ hist' = FsWrite(hist, fd[t].where, fd[t].pos,
                       Cell(HistoryJson("list", loc[t].history), fd[t].pos))
    /\ IF fd[t].pos = NChunks
       THEN /\ fd' = [fd EXCEPT ![t] = ClosedFd]
            /\ pc' = [pc EXCEPT ![t] = "hist_rename"]
       ELSE /\ fd' = [fd EXCEPT ![t].pos = @ + 1]
            /\ pc' = pc
    /\ UNCHANGED <<now, rates, loc, caller, out, cycles, log, crashed, sched>>

HistRename(t) ==
    /\ ~crashed
    /\ pc[t] = "hist_rename"
    /\ IF hist.tmp.exists
       THEN /\ hist' = FsRename(hist)
            /\ fd' = FdsAfterRename(t, HistPcs)
            /\ pc' = [pc EXCEPT ![t] = "return"]
            /\ UNCHANGED <<loc, caller, out>>
       ELSE /\ Finish(t, loc[t], "FileNotFoundError", NoResult)
            /\ UNCHANGED <<hist, fd>>
    /\ UNCHANGED <<now, rates, cycles, log, crashed, sched>>

\* updater.py:151-161
Return(t) ==
    /\ ~crashed
    /\ pc[t] = "return"
    /\ Finish(t, loc[t], "none", UpdateResult(loc[t]))
    /\ UNCHANGED <<now, rates, hist, fd, cycles, log, crashed, sched>>

\* the wall clock advances
Tick ==
    /\ ~crashed
    /\ now < MaxTime
    /\ now' = now + 1
    /\ UNCHANGED <<rates, hist, pc, loc, fd, caller, out, cycles, log, crashed, sched>>

\* ---------------------------------------------------------- initial states
\* Database._init_files, database.py:53-81: the seeded rates.json
SeedRate == Float(1)
SeedPairs == {"BTC_USD", "EUR_USD"}

SeedFile(clock) ==
    Dumped(RatesJson("nested",
        [key \in SeedPairs |-> Entry(SeedRate, Iso(clock), "SeedData")],
        Iso(clock)))

NoFiles == [target |-> MissingFile, tmp |-> MissingFile]

InitCommon ==
    /\ now = 0
    /\ hist = NoFiles
    /\ pc = [t \in Threads |-> "idle"]
    /\ loc = [t \in Threads |-> IdleLoc]
    /\ fd = [t \in Threads |-> ClosedFd]
    /\ caller = [t \in Threads |-> NoCaller]
    /\ out = [t \in Threads |-> NoOut]
    /\ cycles = 0
    /\ crashed = FALSE
    /\ sched = NoSched

\* the rates file is absent (a fresh RatesStorage) or seeded (a fresh Database)
Init ==
    /\ InitCommon
    /\ rates \in {NoFiles, [target |-> SeedFile(0), tmp |-> MissingFile]}
    /\ log = [initial |-> load_snapshot(rates).pairs, seq |-> <<>>]

\* ------------------------------------------- sequential update cycles: Spec
\* load, merge and write: updater.py:97-161
Persist(t) ==
    \/ MergeStep(t)
    \/ SnapOpen(t)
    \/ SnapWrite(t)
    \/ SnapRename(t)
    \/ HistLoad(t)
    \/ HistOpen(t)
    \/ HistWrite(t)
    \/ HistRename(t)
    \/ Return(t)

Steps(t) == Fetch(t) \/ Persist(t)

Cycle(t) ==
    \/ \E source_filter \in SourceFilters : RunUpdate(t, source_filter)
    \/ Steps(t)

Next == Cycle("fg") \/ Tick

Spec == Init /\ [][Next]_vars

\* ------------------------------------------- a crash at any point: SpecCrash
\* the process is killed; the files stay as they are
Crash ==
    /\ ~crashed
    /\ crashed' = TRUE
    /\ UNCHANGED <<now, rates, hist, pc, loc, fd, caller, out, cycles, log, sched>>

NextCrash == Cycle("fg") \/ Tick \/ Crash

SpecCrash == Init /\ [][NextCrash]_vars

\* ------------------------------- two run_update at the same time: SpecConc
\* The scheduler thread "bg" (scheduler.py:41) and a foreground call "fg"
\* (usecases.py:491, 513) have both collected their samples: "fg" one from
\* CoinGecko while ExchangeRate-API failed, "bg" one from ExchangeRate-API
\* while CoinGecko failed.  What follows is the load, merge and write of each.
Collected(cg, er, clock) ==
    Fetched(Fetched(Begun(None), fetch_rates(CoinGecko, "key", cg, clock)),
            fetch_rates(ExchangeRateApi, "key", er, clock))

OneQuote(time) ==
    {[kind |-> "ok", result |-> "success", rates_is_dict |-> TRUE,
      quotes |-> q, time |-> time] : q \in [{"BTC"} -> ProviderValues]}

InitConc ==
    /\ now \in Instants
    /\ hist = NoFiles
    /\ rates \in {NoFiles, [target |-> SeedFile(0), tmp |-> MissingFile]}
    /\ pc = [t \in Threads |-> "merge"]
    /\ \E cg \in OneQuote(None), er \in UNION {OneQuote(r) : r \in RawTimes \ {None}} :
         loc = [t \in Threads |->
                  IF t = "fg" THEN Collected(cg, Failure("http"), now)
                  ELSE Collected(Failure("http"), er, now)]
    /\ fd = [t \in Threads |-> ClosedFd]
    /\ caller = [t \in Threads |-> NoCaller]
    /\ out = [t \in Threads |-> NoOut]
    /\ cycles = Cardinality(Threads)
    /\ log = [initial |-> load_snapshot(rates).pairs, seq |-> <<>>]
    /\ crashed = FALSE
    /\ sched = NoSched

NextConc == \E t \in Threads : Persist(t)

SpecConc == InitConc /\ [][NextConc]_vars

\* ----------------------------------------------------- the staleness gate
\* Database.load_rates, database.py:203-222 (_load_json, database.py:83-89,
\* answers {} for a missing or undecodable file)
load_rates(fs) ==
    IF ~fs.target.exists \/ ~IsJson(fs.target) THEN EmptySnapshot
    ELSE IF JsonOf(fs.target).fmt = "list" THEN EmptySnapshot
    ELSE LET raw_data == JsonOf(fs.target)
         IN  [pairs |-> IF HasPairsSection(raw_data) THEN PairsSection(raw_data)
                        ELSE TopLevelEntries(raw_data),
              last_refresh |-> raw_data.last_refresh]

\* Database.get_rate, database.py:232-265; found = FALSE is Python's None
NoRate == [found |-> FALSE, rate |-> Float(0)]

get_rate(fs, from_currency, to_currency) ==
    LET pairs == load_rates(fs).pairs
        rate_key == Pair(from_currency, to_currency)
        reverse_key == Pair(to_currency, from_currency)
    IN  IF from_currency = to_currency
        THEN [found |-> TRUE, rate |-> Float(1)]
        ELSE IF rate_key \in DOMAIN pairs
        THEN [found |-> TRUE, rate |-> pairs[rate_key].rate]
        ELSE IF reverse_key \in DOMAIN pairs /\ pairs[reverse_key].rate.n # 0
        THEN [found |-> TRUE, rate |-> Inverse(pairs[reverse_key].rate)]
        ELSE NoRate

NoPairData == [found |-> FALSE, rate |-> Float(0), updated_at |-> None]

\* mutant: the reverse key is tried first
_load_pair_rate_reverse_first(fs, from_currency, to_currency) ==
    LET pairs == load_rates(fs).pairs
        direct_key == Pair(from_currency, to_currency)
        reverse_key == Pair(to_currency, from_currency)
    IN  IF reverse_key \in DOMAIN pairs /\ pairs[reverse_key].rate.n # 0
        THEN [found |-> TRUE, rate |-> Inverse(pairs[reverse_key].rate),
              updated_at |-> pairs[reverse_key].updated_at]
        ELSE IF direct_key \in DOMAIN pairs
        THEN [found |-> TRUE, rate |-> pairs[direct_key].rate,
              updated_at |-> pairs[direct_key].updated_at]
        ELSE NoPairData

\* RateUseCases._load_pair_rate, usecases.py:421-453
_load_pair_rate(fs, from_currency, to_currency) ==
    LET pairs == load_rates(fs).pairs
        direct_key == Pair(from_currency, to_currency)
        reverse_key == Pair(to_currency, from_currency)
    IN  IF direct_key \in DOMAIN pairs
        THEN [found |-> TRUE, rate |-> pairs[direct_key].rate,
              updated_at |-> pairs[direct_key].updated_at]
        ELSE IF reverse_key \in DOMAIN pairs /\ pairs[reverse_key].rate.n # 0
        THEN [found |-> TRUE, rate |-> Inverse(pairs[reverse_key].rate),
              updated_at |-> pairs[reverse_key].updated_at]
        ELSE NoPairData

\* mutant: a timestamp that does not parse counts as fresh
_is_stale_unparsed_fresh(updated_at, ttl_seconds, clock) ==
    IF ttl_seconds <= 0 THEN FALSE
    ELSE IF ~_iso_to_datetime(updated_at).ok THEN FALSE
    ELSE clock - _iso_to_datetime(updated_at).t > ttl_seconds

\* mutant: only a timestamp that parses can be stale
_is_stale_malformed_fresh(updated_at, ttl_seconds, clock) ==
    /\ ttl_seconds > 0
    /\ _iso_to_datetime(updated_at).ok
    /\ clock - _iso_to_datetime(updated_at).t > ttl_seconds

\* mutant: ttl_seconds <= 0 does not switch the test off
_is_stale_always_checked(updated_at, ttl_seconds, clock) ==
    IF updated_at = None \/ updated_at = "" THEN TRUE
    ELSE IF ~_iso_to_datetime(updated_at).ok THEN TRUE
    ELSE clock - _iso_to_datetime(updated_at).t > ttl_seconds

\* RateUseCases._is_stale, usecases.py:455-474
_is_stale(updated_at, ttl_seconds, clock) ==
    IF ttl_seconds <= 0 THEN FALSE
    ELSE IF updated_at = None \/ updated_at = "" THEN TRUE
    ELSE IF ~_iso_to_datetime(updated_at).ok THEN TRUE
    ELSE clock - _iso_to_datetime(updated_at).t > ttl_seconds

GateQueries == {<<"BTC", "USD">>, <<"USD", "BTC">>, <<"USD", "USD">>}
TtlValues == (0 - 1)..MaxTtl

\* get_exchange_rate is left: by return with a rate (exc = "none"), or by an
\* exception.  checked_at and refreshes are observations: the clock at the
\* last _is_stale, and the number of run_update this call has started.
GateOut(c, exc, pair_data, clock) ==
    [call |-> "get_exchange_rate", exc |-> exc,
     result |-> [rate |-> pair_data.rate, updated_at |-> pair_data.updated_at,
                 from_currency |-> c.from_currency, to_currency |-> c.to_currency,
                 ttl_seconds |-> c.ttl_seconds, checked_at |-> clock,
                 refreshes |-> c.refreshes],
     source_filter |-> None, active |-> <<>>, invoked |-> <<>>, errors |-> <<>>]

\* _refresh_rates, usecases.py:476-491: a new updater over both clients
Refresh(t, c, frame) ==
    /\ Begin(t, None)
    /\ caller' = [caller EXCEPT ![t] =
            [c EXCEPT !.frame = frame, !.refreshed = "none", !.refreshes = @ + 1]]
    /\ out' = [out EXCEPT ![t] = NoOut]

Leave(t, c, exc, pair_data) ==
    /\ pc' = [pc EXCEPT ![t] = "idle"]
    /\ caller' = [caller EXCEPT ![t] = NoCaller]
    /\ out' = [out EXCEPT ![t] = GateOut(c, exc, pair_data, now)]
    /\ UNCHANGED <<loc, cycles>>

\* get_exchange_rate up to its first refresh or its return, usecases.py:574-600
GetExchangeRate(t, from_currency, to_currency, ttl_seconds) ==
    /\ ~crashed
    /\ pc[t] = "idle"
    /\ cycles + RefreshSites <= MaxCycles
    /\ LET c == [NoCaller EXCEPT !.from_currency = from_currency,
                                 !.to_currency = to_currency,
                                 !.ttl_seconds = ttl_seconds]
           pair_data == _load_pair_rate(rates, from_currency, to_currency)
       IN  IF ~pair_data.found
           THEN Refresh(t, c, "missing")
           ELSE IF _is_stale(pair_data.updated_at, ttl_seconds, now)
           THEN Refresh(t, c, "stale")
           ELSE Leave(t, c, "none", pair_data)
    /\ UNCHANGED <<now, rates, hist, fd, log, crashed, sched>>

\* get_exchange_rate after _refresh_rates has come back: usecases.py:592-608
GateResume(t) ==
    /\ ~crashed
    /\ pc[t] = "gate_resume"
    /\ LET c == caller[t]
           pair_data == _load_pair_rate(rates, c.from_currency, c.to_currency)
       IN  IF c.refreshed \notin {"none", "ApiRequestError"}
           THEN Leave(t, c, c.refreshed, NoPairData)
           ELSE IF c.frame = "missing"
           THEN IF c.refreshed = "ApiRequestError" \/ ~pair_data.found
                THEN Leave(t, c, "RateUnavailableError", NoPairData)
                ELSE IF _is_stale(pair_data.updated_at, c.ttl_seconds, now)
                THEN Refresh(t, c, "stale")
                ELSE Leave(t, c, "none", pair_data)
           ELSE IF c.refreshed = "ApiRequestError"
                THEN Leave(t, c, "ApiRequestError", NoPairData)
                ELSE IF ~pair_data.found
                THEN Leave(t, c, "RateUnavailableError", NoPairData)
                ELSE IF _is_stale(pair_data.updated_at, c.ttl_seconds, now)
                THEN Leave(t, c, "ApiRequestError", NoPairData)
                ELSE Leave(t, c, "none", pair_data)
    /\ UNCHANGED <<now, rates, hist, fd, log, crashed, sched>>

\* ------------------------------------------------ one consumer read: SpecGate
\* The seed is stamped with datetime.now(), local time without a zone
\* (database.py:54), which _is_stale reads as UTC: the clock plus the offset
\* of the local zone.
\* the two files as a run_update that collected samples at clock 0 and found
\* no file has left them: updater.py:100-149
LeftBy(samples) ==
    LET m == Merge(NoPairs, samples, 0)
    IN  [rates |-> [target |-> Dumped(write_snapshot_payload(m.merged_pairs,
                                                             LastRefresh(samples, 0))),
                    tmp |-> MissingFile],
         hist |-> [target |-> Dumped(HistoryJson("list",
                                  append_history_payload(<<>>, m.history_records))),
                   tmp |-> MissingFile]]

\* no file, the seed, or the files of an earlier update in which
\* ExchangeRate-API gave a time that is no RFC-2822 date
GateFiles ==
    {[rates |-> NoFiles, hist |-> NoFiles]}
    \cup {[rates |-> [target |-> SeedFile(z), tmp |-> MissingFile], hist |-> NoFiles] :
              z \in Instants}
    \cup {LeftBy(Collected(Failure("http"), er, 0).aggregated) : er \in OneQuote(Garbage)}

InitGate ==
    /\ now = 0
    /\ \E f \in GateFiles : rates = f.rates /\ hist = f.hist
    /\ pc = [t \in Threads |-> "idle"]
    /\ loc = [t \in Threads |-> IdleLoc]
    /\ fd = [t \in Threads |-> ClosedFd]
    /\ caller = [t \in Threads |-> NoCaller]
    /\ out = [t \in Threads |-> NoOut]
    /\ cycles = 0
    /\ log = [initial |-> load_snapshot(rates).pairs, seq |-> <<>>]
    /\ crashed = FALSE
    /\ sched = NoSched

NextGate ==
    \/ \E q \in GateQueries, ttl_seconds \in TtlValues :
           GetExchangeRate("fg", q[1], q[2], ttl_seconds)
    \/ GateResume("fg")
    \/ Steps("fg")
    \/ Tick

SpecGate == InitGate /\ [][NextGate]_vars

\* ------------------------------------- the two reads of a pair: SpecLookup
\* Database.update_rate, database.py:267-286, stores any key with a rate and
\* the local time; save_rates writes the nested format.
StoredRates == {Float(0)} \cup {Float(v) : v \in ProviderValues}
                   \cup {Inverse(Float(v)) : v \in ProviderValues}

DbEntry(rate, updated_at) == [rate |-> rate, updated_at |-> updated_at]

LookupKeys == {Pair(q[1], q[2]) : q \in {g \in GateQueries : g[1] # g[2]}}

Tables ==
    UNION {[K -> {DbEntry(r, Iso(z)) : r \in StoredRates, z \in Instants}] :
              K \in SUBSET LookupKeys}

InitLookup ==
    /\ InitCommon
    /\ \E pairs \in Tables, z \in Instants :
          rates = [target |-> Dumped(RatesJson("nested", pairs, Iso(z))),
                   tmp |-> MissingFile]
    /\ log = [initial |-> load_rates(rates).pairs, seq |-> <<>>]

\* the read of (from_currency, to_currency) by both readers
LookupOut(from_currency, to_currency) ==
    [call |-> "lookup", exc |-> "none",
     result |-> [from_currency |-> from_currency, to_currency |-> to_currency,
                 pair_data |-> _load_pair_rate(rates, from_currency, to_currency),
                 rate |-> get_rate(rates, from_currency, to_currency)],
     source_filter |-> None, active |-> <<>>, invoked |-> <<>>, errors |-> <<>>]

Lookup(t, from_currency, to_currency) ==
    /\ ~crashed
    /\ pc[t] = "idle"
    /\ out' = [out EXCEPT ![t] = LookupOut(from_currency, to_currency)]
    /\ UNCHANGED <<now, rates, hist, pc, loc, fd, caller, cycles, log, crashed, sched>>

NextLookup == \E t \in Threads, q \in GateQueries : Lookup(t, q[1], q[2])

SpecLookup == InitLookup /\ [][NextLookup]_vars

\* ------------------------------------------------- the scheduler: SpecSched
\* One caller makes the start() and stop() calls, one after the other; the
\* threads of Threads are the Thread objects start() can create.

\* mutant: start() takes the thread it holds for dead
is_alive_never(thread) == FALSE

\* Thread.is_alive(), scheduler.py:25
is_alive(thread) == thread \in sched.alive

\* mutant: join() comes back at once
JoinedAtOnce(thread) == TRUE

\* Thread.join() comes back, scheduler.py:35
Joined(thread) == thread \notin sched.alive

\* mutant: the loop does not look at the event
LoopGoesOnRegardless(stop_event) == TRUE

\* "while not self._stop_event.is_set()", scheduler.py:39
LoopGoesOn(stop_event) == ~stop_event

\* mutant: a provider error ends the loop like any other exception
SwallowedReturnOnly(exc) == exc = "none"

\* "except ApiRequestError", scheduler.py:44
Swallowed(exc) == exc \in {"none", "ApiRequestError"}

\* the Thread objects not in use
FreeThreads == {u \in Threads : u \notin sched.alive /\ pc[u] = "idle"}

SchedulerFrame == [NoCaller EXCEPT !.frame = "scheduler"]

\* UpdateScheduler.start, scheduler.py:24-29
Start ==
    /\ ~crashed
    /\ sched.ctl = "idle"
    /\ IF sched._thread # None /\ is_alive(sched._thread)
       THEN /\ sched' = [sched EXCEPT !.last = "start_noop"]
            /\ UNCHANGED <<pc, caller>>
       ELSE /\ FreeThreads # {}
            /\ LET thread == IF "bg" \in FreeThreads THEN "bg"
                             ELSE CHOOSE u \in FreeThreads : TRUE
               IN  /\ sched' = [sched EXCEPT !._stop_event = FALSE,
                                             !._thread = thread,
                                             !.alive = @ \cup {thread},
                                             !.last = "start"]
                   /\ pc' = [pc EXCEPT ![thread] = "loop_test"]
                   /\ caller' = [caller EXCEPT ![thread] = SchedulerFrame]
    /\ UNCHANGED <<now, rates, hist, loc, fd, out, cycles, log, crashed>>

\* UpdateScheduler.stop up to join(), scheduler.py:31-35
Stop ==
    /\ ~crashed
    /\ sched.ctl = "idle"
    /\ IF sched._thread = None
       THEN sched' = [sched EXCEPT !.last = "stop_noop"]
       ELSE sched' = [sched EXCEPT !._stop_event = TRUE, !.ctl = "join", !.last = "stop"]
    /\ UNCHANGED <<now, rates, hist, pc, loc, fd, caller, out, cycles, log, crashed>>

\* join() comes back and stop() returns, scheduler.py:35-36
StopReturn ==
    /\ ~crashed
    /\ sched.ctl = "join"
    /\ Joined(sched._thread)
    /\ sched' = [sched EXCEPT !._thread = None, !.ctl = "idle", !.last = "stopped"]
    /\ UNCHANGED <<now, rates, hist, pc, loc, fd, caller, out, cycles, log, crashed>>

\* the thread's target has returned, or an exception has left it
Terminate(u) ==
    /\ pc' = [pc EXCEPT ![u] = "idle"]
    /\ caller' = [caller EXCEPT ![u] = NoCaller]
    /\ sched' = [sched EXCEPT !.alive = @ \ {u}]

\* the test of the while loop and the call of run_update, scheduler.py:39-41
LoopTest(u) ==
    /\ ~crashed
    /\ pc[u] = "loop_test"
    /\ IF LoopGoesOn(sched._stop_event)
       THEN /\ cycles < MaxCycles
            /\ Begin(u, None)
            /\ out' = [out EXCEPT ![u] = NoOut]
            /\ UNCHANGED <<caller, sched>>
       ELSE /\ Terminate(u)
            /\ UNCHANGED <<loc, out, cycles>>
    /\ UNCHANGED <<now, rates, hist, fd, log, crashed>>

\* run_update has returned or raised, scheduler.py:42-48
LoopResume(u) ==
    /\ ~crashed
    /\ pc[u] = "loop_resume"
    /\ IF Swallowed(caller[u].refreshed)
       THEN /\ pc' = [pc EXCEPT ![u] = "loop_wait"]
            /\ UNCHANGED <<caller, sched>>
       ELSE Terminate(u)
    /\ UNCHANGED <<now, rates, hist, loc, fd, out, cycles, log, crashed>>

\* self._stop_event.wait(self.interval_seconds) comes back, scheduler.py:49:
\* at once when the event is set, else when the interval is over
LoopWait(u) ==
    /\ ~crashed
    /\ pc[u] = "loop_wait"
    /\ IF sched._stop_event
       THEN now' = now
       ELSE now < MaxTime /\ now' = now + 1
    /\ pc' = [pc EXCEPT ![u] = "loop_test"]
    /\ UNCHANGED <<rates, hist, loc, fd, caller, out, cycles, log, crashed, sched>>

\* open(temp_path, "w") of _atomic_write raises OSError, storage.py:25: the
\* disk is full, or the directory is not writable
WriteFails(t) ==
    /\ ~crashed
    /\ pc[t] \in {"snap_open", "hist_open"}
    /\ Finish(t, loc[t], "OSError", NoResult)
    /\ UNCHANGED <<now, rates, hist, fd, cycles, log, crashed, sched>>

Loop(u) == LoopTest(u) \/ Steps(u) \/ WriteFails(u) \/ LoopResume(u) \/ LoopWait(u)

NextSched == Start \/ Stop \/ StopReturn \/ \E u \in Threads : Loop(u)

SpecSched == Init /\ [][NextSched]_vars

\* --------------------------------------- damaged files: SpecCorrupt
\* What can stand at the path of rates.json and of exchange_rates.json when
\* the file is not the one the storage wrote: nothing, a file of no bytes,
\* bytes that are no text, the first part of a dump, a JSON value of another
\* top-level type.
SeedRecord ==
    HistoryRecord(RateSample("BTC", base_currency, SeedRate, "SeedData", Iso(0)))

Torn(w) == [exists |-> TRUE, cells |-> <<Cell(w, 1)>>]

NotText == [exists |-> TRUE, cells |-> <<Bytes>>]

DamagedSnapshots ==
    {MissingFile, EmptyFile, NotText, Torn(JsonOf(SeedFile(0))),
     Dumped([JsonOf(SeedFile(0)) EXCEPT !.fmt = "list"])}

DamagedHistories ==
    {MissingFile, EmptyFile, NotText, Torn(HistoryJson("list", <<SeedRecord>>)),
     Dumped(HistoryJson("object", <<SeedRecord>>))}

InitCorrupt ==
    /\ now = 0
    /\ \E file \in DamagedSnapshots : rates = [target |-> file, tmp |-> MissingFile]
    /\ \E file \in DamagedHistories : hist = [target |-> file, tmp |-> MissingFile]
    /\ pc = [t \in Threads |-> "idle"]
    /\ loc = [t \in Threads |-> IdleLoc]
    /\ fd = [t \in Threads |-> ClosedFd]
    /\ caller = [t \in Threads |-> NoCaller]
    /\ out = [t \in Threads |-> NoOut]
    /\ cycles = 0
    /\ log = [initial |-> load_snapshot(rates).pairs, seq |-> <<>>]
    /\ crashed = FALSE
    /\ sched = NoSched

NextCorrupt == RunUpdate("fg", None) \/ Steps("fg")

SpecCorrupt == InitCorrupt /\ [][NextCorrupt]_vars

\* ------------------------------------ the merge over two pairs: SpecMerge
\* A configuration whose fiat list holds EUR and then BTC (config.py:53-58):
\* CoinGecko quotes BTC, ExchangeRate-API quotes EUR and BTC, so that one
\* cycle collects two pairs and one of them twice.  The frame is the one after
\* the fetch loop; the rates file was written by an earlier cycle.
MergeFiat == <<"EUR", "BTC">>

SubSeqs(codes) ==
    {SelectSeq(codes, LAMBDA c : c \in S) : S \in SUBSET {codes[i] : i \in DOMAIN codes}}

Stamps == {Iso(n) : n \in Instants} \cup {Garbage}

PriorTables ==
    UNION {[S -> {Entry(SeedRate, ts, "SeedData") : ts \in Stamps}] : S \in SUBSET SeedPairs}

QuotedBy(codes, rate, source, timestamp) ==
    [i \in 1..Len(codes) |-> RateSample(codes[i], base_currency, rate, source, timestamp)]

InitMerge ==
    /\ now \in Instants
    /\ hist = NoFiles
    /\ \E prior \in PriorTables :
         rates = [target |-> Dumped(write_snapshot_payload(prior, Iso(0))),
                  tmp |-> MissingFile]
    /\ pc = [t \in Threads |-> IF t = "fg" THEN "merge" ELSE "idle"]
    /\ \E cg \in SubSeqs(crypto_currencies), er \in SubSeqs(MergeFiat), ts \in Stamps :
         loc = [t \in Threads |->
                  IF t = "fg"
                  THEN Fetched(Fetched(Begun(None),
                                       Returned(QuotedBy(cg, Float(1), CoinGecko,
                                                         _utc_now_iso(now)))),
                               Returned(QuotedBy(er, Inverse(Float(MaxRate)),
                                                 ExchangeRateApi, ts)))
                  ELSE IdleLoc]
    /\ fd = [t \in Threads |-> ClosedFd]
    /\ caller = [t \in Threads |-> NoCaller]
    /\ out = [t \in Threads |-> NoOut]
    /\ cycles = 1
    /\ log = [initial |-> load_snapshot(rates).pairs, seq |-> <<>>]
    /\ crashed = FALSE
    /\ sched = NoSched

NextMerge == Persist("fg")

SpecMerge == InitMerge /\ [][NextMerge]_vars

\* ------------------------- write_snapshot, then the two loads: SpecRoundTrip
\* RatesStorage.write_snapshot(pairs, last_refresh) called with a table of
\* entries over the pair keys and any marker, on a data directory without a
\* rates file or with the seeded one; when it has returned, load_snapshot()
\* and Database.load_rates() read the file.
RoundTripTables ==
    UNION {[S -> {Entry(Float(v), ts, CoinGecko) : v \in ProviderValues, ts \in Stamps}]
              : S \in SUBSET SeedPairs}

InitRoundTrip ==
    /\ now = 0
    /\ hist = NoFiles
    /\ rates \in {NoFiles, [target |-> SeedFile(0), tmp |-> MissingFile]}
    /\ pc = [t \in Threads |-> IF t = "fg" THEN "snap_open" ELSE "idle"]
    /\ \E pairs \in RoundTripTables, last_refresh \in Stamps \cup {None} :
         loc = [t \in Threads |->
                  IF t = "fg"
                  THEN [IdleLoc EXCEPT !.merged_pairs = pairs,
                                       !.last_refresh = last_refresh]
                  ELSE IdleLoc]
    /\ fd = [t \in Threads |-> ClosedFd]
    /\ caller = [t \in Threads |-> NoCaller]
    /\ out = [t \in Threads |-> NoOut]
    /\ cycles = 0
    /\ log = [initial |-> load_snapshot(rates).pairs, seq |-> <<>>]
    /\ crashed = FALSE
    /\ sched = NoSched

\* what the two readers get from the file
LoadOut ==
    [call |-> "load", exc |-> "none",
     result |-> [load_snapshot |-> load_snapshot(rates), load_rates |-> load_rates(rates)],
     source_filter |-> None, active |-> <<>>, invoked |-> <<>>, errors |-> <<>>]

\* the reads that follow write_snapshot's return
Load(t) ==
    /\ ~crashed
    /\ pc[t] = "hist_load"
    /\ ReadError(rates) = "none"
    /\ out' = [out EXCEPT ![t] = LoadOut]
    /\ pc' = [pc EXCEPT ![t] = "idle"]
    /\ UNCHANGED <<now, rates, hist, loc, fd, caller, cycles, log, crashed, sched>>

NextRoundTrip == SnapOpen("fg") \/ SnapWrite("fg") \/ SnapRename("fg") \/ Load("fg")

SpecRoundTrip == InitRoundTrip /\ [][NextRoundTrip]_vars

\* --------------------------------------- fair scheduling: SpecSchedFair
\* The scheduler with providers of which only CoinGecko delivers a quote, the
\* least one: ExchangeRate-API fails or quotes nothing.  Every thread that
\* can take a step takes one after finitely many steps of the others: a call
\* of fetch_rates comes back (requests is given a timeout, api_clients.py:82),
\* a file operation completes, wait() and join() come back when their
\* condition holds.
OneProvider ==
    \A u \in Threads : \A i \in DOMAIN loc'[u].aggregated :
        /\ loc'[u].aggregated[i].source = CoinGecko
        /\ loc'[u].aggregated[i].rate = Float(1)

FairLoop(u) == Loop(u) /\ OneProvider

NextSchedFair == Start \/ Stop \/ StopReturn \/ \E u \in Threads : FairLoop(u)

Fairness == (\A u \in Threads : WF_vars(FairLoop(u))) /\ WF_vars(StopReturn)

SpecSchedFair == Init /\ [][NextSchedFair]_vars /\ Fairness

\* ------------------------------------------------------------ observations
Snapshot == load_snapshot(rates)
History == load_history(hist)

\* the samples of pair p that went through the merge loop, oldest first
Seen(p) == SelectSeq(log.seq, LAMBDA e : SamplePair(e.sample) = p)

Parsed(ts) == _iso_to_datetime(ts)

\* no run_update of t is between its merge and the rename of its snapshot
SnapshotWritten(t) == pc[t] \notin {"snap_open", "snap_write", "snap_rename"}

\* run_update of t is between the start of its load_snapshot and the end of
\* its append_history
InCycle(t) == pc[t] \in SnapPcs \cup {"hist_load"} \cup HistPcs

\* get_exchange_rate of t has returned a rate under a positive TTL
Served(t) ==
    /\ out[t].call = "get_exchange_rate"
    /\ out[t].exc = "none"
    /\ out[t].result.ttl_seconds > 0

\* the returned rate and updated_at are those of the entry at key
ReadFrom(r, key, rate) ==
    /\ key \in DOMAIN Snapshot.pairs
    /\ Snapshot.pairs[key].updated_at = r.updated_at
    /\ rate = r.rate

IsPrefix(a, b) == Len(a) <= Len(b) /\ \A i \in DOMAIN a : a[i] = b[i]

\* the clients whose fetch_rates failed in the run_update with outcome o: those
\* recorded in errors, and the one whose exception left run_update
Escaped(o) ==
    IF o.exc \in {"ValueError", "AttributeError"}
    THEN {o.invoked[Len(o.invoked)]}
    ELSE {}

FailedClients(o) == {o.errors[i].source : i \in DOMAIN o.errors} \cup Escaped(o)

Ended(t) == out[t].call = "run_update" /\ out[t].active # <<>>

\* the configured clients whose name is source_filter, letter case aside
Matching(source_filter) == {c \in {Clients[i] : i \in DOMAIN Clients} : Lower(c) = Lower(source_filter)}

Range(seq) == {seq[i] : i \in DOMAIN seq}

\* every active client of the run_update with outcome o has failed
AllFailed(o) ==
    /\ o.call = "run_update"
    /\ o.active # <<>>
    /\ Range(o.active) \subseteq FailedClients(o)

\* the step in which get_exchange_rate of t goes on after _refresh_rates
Resumes(t) == pc[t] = "gate_resume" /\ pc'[t] # "gate_resume"

\* what _load_pair_rate finds for the pair the caller of t asks for
Stored(t) == _load_pair_rate(rates, caller[t].from_currency, caller[t].to_currency)

\* get_exchange_rate of t is left in this step: with rate, or by exception exc
Returns(t, rate) ==
    /\ out'[t].call = "get_exchange_rate"
    /\ out'[t].exc = "none"
    /\ out'[t].result.rate = rate

Fails(t, exc) ==
    /\ out'[t].call = "get_exchange_rate"
    /\ out'[t].exc = exc

\* get_exchange_rate of t is left in this step
Left(t) ==
    /\ pc[t] \in {"idle", "gate_resume"}
    /\ pc'[t] = "idle"
    /\ out'[t].call = "get_exchange_rate"
    /\ out'[t] # out[t]

\* what _load_pair_rate finds for the pair of the call that is left
Asked(t) == _load_pair_rate(rates, out'[t].result.from_currency, out'[t].result.to_currency)

\* get_exchange_rate of t starts a refresh as its first step
StartsRefresh(t) == pc[t] = "idle" /\ caller'[t].frame # "none"

\* what _load_pair_rate finds for the pair of the call that starts
Found(t) == _load_pair_rate(rates, caller'[t].from_currency, caller'[t].to_currency)

\* the currency codes a read is made with
Currencies == UNION {{q[1], q[2]} : q \in GateQueries}

\* the decisions the merge loop has taken in this step
Decided == SubSeq(log'.seq, Len(log.seq) + 1, Len(log'.seq))

\* run_update of t goes through updater.py:97-146 in this step and goes on
Merges(t) == pc[t] = "merge" /\ pc'[t] = "snap_open"

\* the positions of a run_update
CyclePcs == {"fetch", "merge"} \cup SnapPcs \cup {"hist_load"} \cup HistPcs \cup {"return"}

\* the call of start() or stop() made in this step, as observed
Called(name) == sched'.last = name /\ sched.last # name

\* the scheduler's thread begins a run_update in this step
BeginsCycle(u) == pc[u] = "loop_test" /\ pc'[u] = "fetch"

\* the scheduler's thread leaves its run_update in this step
EndsCycle(u) == pc[u] \in CyclePcs /\ pc'[u] \notin CyclePcs

\* the file is missing, is no JSON document, or holds a JSON value of the
\* wrong top-level type
DamagedSnapshot(file) == ~file.exists \/ ~IsJson(file) \/ JsonOf(file).fmt = "list"

DamagedHistory(file) == ~file.exists \/ ~IsJson(file) \/ JsonOf(file).fmt # "list"

\* thread t starts a fetch_rates call: its list of invoked clients grows, in
\* its frame or in the outcome it leaves with
Invokes(t) ==
    \/ Len(loc'[t].invoked) > Len(loc[t].invoked)
    \/ out'[t] # out[t] /\ Len(out'[t].invoked) > Len(loc[t].invoked)

\* thread t has passed load_snapshot and has not left run_update
Loaded(t) == pc[t] \in SnapPcs \cup {"hist_load"} \cup HistPcs \cup {"return"}

\* ---------------------------------------------------------------------- C1
\* C1: last-writer-wins is order-independent.  Whenever exactly two samples
\* A and B of one pair, with parseable timestamps A.timestamp < B.timestamp,
\* have been merged (in one cycle or in two, in either order) into a snapshot
\* that had no entry for the pair, the entry of the pair carries the rate,
\* the timestamp (as updated_at) and the source of B.
C1_LastWriterWins ==
    \A p \in PairKeys :
        LET S == Seen(p)
        IN  (/\ p \notin DOMAIN log.initial
             /\ SnapshotWritten("fg")
             /\ Len(S) = 2
             /\ Parsed(S[1].sample.timestamp).ok
             /\ Parsed(S[2].sample.timestamp).ok
             /\ Parsed(S[1].sample.timestamp).t # Parsed(S[2].sample.timestamp).t)
            => LET B == IF Parsed(S[1].sample.timestamp).t > Parsed(S[2].sample.timestamp).t
                        THEN S[1].sample ELSE S[2].sample
               IN  /\ p \in DOMAIN Snapshot.pairs
                   /\ Snapshot.pairs[p] = Entry(B.rate, B.timestamp, B.source)

\* B arrived first and A, the older one, second, with another rate
C1_Witness ==
    \E p \in PairKeys :
        LET S == Seen(p)
        IN  /\ p \notin DOMAIN log.initial
            /\ pc["fg"] = "idle"
            /\ Len(S) = 2
            /\ Parsed(S[1].sample.timestamp).ok
            /\ Parsed(S[2].sample.timestamp).ok
            /\ Parsed(S[1].sample.timestamp).t > Parsed(S[2].sample.timestamp).t
            /\ S[1].sample.rate # S[2].sample.rate
            /\ Snapshot.pairs[p].rate = S[1].sample.rate

\* ---------------------------------------------------------------------- C2
\* C2: per-pair freshness.  The updated_at of a pair's entry is the most
\* recent timestamp among the samples ever accepted for the pair, so it never
\* falls behind a timestamp accepted earlier.  (Stated for entries whose
\* updated_at is an instant, against the accepted samples whose timestamp is
\* one.)
C2_FreshestAccepted ==
    \A p \in DOMAIN Snapshot.pairs :
        \A i \in DOMAIN log.seq :
            LET e == log.seq[i]
            IN  (/\ SnapshotWritten("fg")
                 /\ SamplePair(e.sample) = p
                 /\ e.accepted
                 /\ Parsed(e.sample.timestamp).ok
                 /\ Parsed(Snapshot.pairs[p].updated_at).ok)
                => Parsed(Snapshot.pairs[p].updated_at).t >= Parsed(e.sample.timestamp).t

\* ---------------------------------------------------------------------- C3
\* C3: updater runs are mutually exclusive.  No two threads are at the same
\* time between the start of their load_snapshot and the end of their
\* append_history.
C3_MutualExclusion ==
    \A t, u \in Threads : (t # u) => ~(InCycle(t) /\ InCycle(u))

\* ---------------------------------------------------------------------- C4
\* C4: no stale read is served.  Whenever get_exchange_rate returns a rate
\* with ttl_seconds > 0, the rate and the updated_at it returns are those of
\* the entry of the pair (direct or reverse) in the snapshot file, that
\* updated_at parses, and its age at the last staleness check is at most
\* ttl_seconds; in every other case the call has left with an exception.
C4_NoStaleRead ==
    \A t \in Threads :
        Served(t) =>
            LET r == out[t].result
                direct_key == Pair(r.from_currency, r.to_currency)
                reverse_key == Pair(r.to_currency, r.from_currency)
            IN  /\ Parsed(r.updated_at).ok
                /\ r.checked_at - Parsed(r.updated_at).t <= r.ttl_seconds
                /\ \/ ReadFrom(r, direct_key, Snapshot.pairs[direct_key].rate)
                   \/ ReadFrom(r, reverse_key, Inverse(Snapshot.pairs[reverse_key].rate))

\* a stored entry of the pair had gone stale, a refresh replaced it, and the
\* refreshed rate is returned
C4_Witness ==
    \E t \in Threads :
        /\ Served(t)
        /\ out[t].result.refreshes = 1
        /\ "BTC_USD" \in DOMAIN log.initial
        /\ out[t].result.updated_at # log.initial["BTC_USD"].updated_at

\* ---------------------------------------------------------------------- C5
\* C5: crash safety of the snapshot write.  When the process is killed inside
\* write_snapshot before the rename, the snapshot file is readable if it was
\* there, and load_snapshot returns the pairs and last_refresh it returned
\* before the write.
C5_CrashKeepsSnapshot ==
    \A t \in Threads :
        (crashed /\ pc[t] \in SnapPcs)
        => /\ load_snapshot(rates) = loc[t].snapshot
           /\ rates.target.exists => IsJson(rates.target)

\* killed with the new table fully dumped into the temporary file, or with
\* half of it, the target holding another table
C5_Witness ==
    /\ crashed
    /\ rates.target.exists
    /\ rates.tmp.exists
    /\ \/ /\ pc["fg"] = "snap_rename"
          /\ IsJson(rates.tmp)
          /\ JsonOf(rates.tmp).pairs # Snapshot.pairs
       \/ /\ pc["fg"] = "snap_write"
          /\ Len(rates.tmp.cells) = 1
          /\ rates.tmp.cells[1].w.pairs # Snapshot.pairs

\* ---------------------------------------------------------------------- C6
\* C6: a reader never observes a partially written snapshot.  The snapshot
\* file, when there, is at every instant one whole dump, also while two
\* run_update write it at the same time, and no write fails because the
\* other writer has renamed the temporary file.
C6_NeverPartial ==
    /\ rates.target.exists => IsJson(rates.target)
    /\ \A t \in Threads : out[t].exc # "FileNotFoundError"

\* ---------------------------------------------------------------------- C7
\* C7: history ids are unique.  No two records of the history file have the
\* same id, whatever the cycles collected: the same pair and timestamp in
\* two cycles, or twice in one cycle.
C7_UniqueIds ==
    \A i, j \in DOMAIN History : i # j => History[i].id # History[j].id

\* a sample with the pair and timestamp of an earlier one was collected, and
\* the history holding the id has been written
C7_Witness ==
    /\ pc["fg"] = "idle"
    /\ \E i, j \in DOMAIN log.seq :
         /\ i < j
         /\ HistoryRecord(log.seq[i].sample).id = HistoryRecord(log.seq[j].sample).id
         /\ log.seq[i].sample.rate # log.seq[j].sample.rate
         /\ HistoryRecord(log.seq[i].sample).id \in Ids(History)

\* ---------------------------------------------------------------------- C8
\* C8: history is append-only.  Every step leaves the history list it found
\* as a prefix of the history list it leaves: records keep their position
\* and content, none is removed, new ones go to the end.
C8_AppendOnly == [][IsPrefix(History, History')]_vars

\* records of a second cycle stand behind those of the first
C8_Witness ==
    /\ pc["fg"] = "idle"
    /\ cycles = 2
    /\ Len(History) >= 3

\* ---------------------------------------------------------------------- C9
\* C9: partial-failure isolation.  A run_update that has ended, whatever the
\* outcome of each client, has invoked fetch_rates exactly once on every
\* active client, in order.
C9_EveryClientInvokedOnce ==
    \A t \in Threads :
        (out[t].call = "run_update" /\ out[t].active # <<>>)
        => out[t].invoked = out[t].active

\* --------------------------------------------------------------------- C10
\* C10: every failure mode of a provider call is an ApiRequestError that
\* run_update records; none leaves run_update as another exception.
C10_OnlyProviderErrors ==
    \A t \in Threads :
        out[t].call = "run_update" => out[t].exc \in {"none", "ApiRequestError"}

\* --------------------------------------------------------------------- C11
\* C11: whenever every active client of a run_update has failed, so that no
\* sample was collected, run_update raises the all-providers-failed error
\* (ApiRequestError) and returns no UpdateResult.
C11_AllFailedRaises ==
    \A t \in Threads :
        (/\ Ended(t)
         /\ \A i \in DOMAIN out[t].active : out[t].active[i] \in FailedClients(out[t]))
        => /\ out[t].exc = "ApiRequestError"
           /\ out[t].result = NoResult

\* --------------------------------------------------------------------- C12
\* C12: a failure of only some active clients is not fatal.  Whenever at
\* least one active client has returned, be it with no sample, while another
\* has failed, run_update does not raise: it has written the snapshot and
\* returns an UpdateResult whose errors name the clients that failed.
C12_PartialFailureReturns ==
    \A t \in Threads :
        (/\ Ended(t)
         /\ FailedClients(out[t]) # {}
         /\ \E i \in DOMAIN out[t].invoked : out[t].invoked[i] \notin FailedClients(out[t]))
        => /\ out[t].exc = "none"
           /\ {out[t].result.errors[i].source : i \in DOMAIN out[t].result.errors}
                  = FailedClients(out[t])
           /\ IsJson(rates.target)

\* --------------------------------------------------------------------- C13
\* C13: source filtering.  run_update with a non-empty source_filter has as
\* active clients exactly the configured clients whose name equals the filter
\* case-insensitively and invokes no other client; when none matches it
\* raises the no-provider error (ApiRequestError) with no client invoked.
C13_SourceFilter ==
    \A t \in Threads :
        /\ (pc[t] \in {"fetch", "merge"} /\ loc[t].source_filter \notin {None, ""})
           => /\ Range(loc[t].active) = Matching(loc[t].source_filter)
              /\ Range(loc[t].invoked) \subseteq Matching(loc[t].source_filter)
        /\ (out[t].call = "run_update" /\ out[t].source_filter \notin {None, ""})
           => /\ Range(out[t].active) = Matching(out[t].source_filter)
              /\ Range(out[t].invoked) \subseteq Matching(out[t].source_filter)
              /\ Matching(out[t].source_filter) = {}
                     => (out[t].exc = "ApiRequestError" /\ out[t].invoked = <<>>)

\* a filter written in other letter case than the client's name has run that
\* client alone, to the end
C13_Witness ==
    /\ out["fg"].call = "run_update"
    /\ out["fg"].source_filter = "COINGECKO"
    /\ out["fg"].invoked = <<CoinGecko>>
    /\ out["fg"].exc = "none"

\* --------------------------------------------------------------------- C14
\* C14: the stale-entry scenario.  get_exchange_rate has found an entry of
\* the pair older than ttl_seconds > 0 and has run a refresh.  If the refresh
\* has stored an entry of the pair with updated_at = now, the call returns
\* the rate of that entry; if every provider has failed in the refresh, the
\* call fails with the stale-data error (ApiRequestError, which is not
\* RateUnavailableError) and returns no rate.
C14_StaleScenario ==
    [][\A t \in Threads :
         (Resumes(t) /\ caller[t].frame = "stale" /\ caller[t].ttl_seconds > 0)
         => /\ (/\ out[t].exc = "none"
                /\ Stored(t).found
                /\ Stored(t).updated_at = _utc_now_iso(now))
               => Returns(t, Stored(t).rate)
            /\ (/\ AllFailed(out[t])
                /\ Parsed(Stored(t).updated_at).ok
                /\ now - Parsed(Stored(t).updated_at).t > caller[t].ttl_seconds)
               => Fails(t, "ApiRequestError")]_vars

\* --------------------------------------------------------------------- C15
\* C15: one refresh per read.  One call of get_exchange_rate starts
\* run_update at most once, whatever the state of the cache.
C15_OneRefreshPerRead ==
    \A t \in Threads :
        /\ caller[t].refreshes <= 1
        /\ out[t].call = "get_exchange_rate" => out[t].result.refreshes <= 1

\* --------------------------------------------------------------------- C16
\* C16: the missing-entry path.  A get_exchange_rate that finds no usable
\* entry of the pair in either direction runs a refresh; if the refresh has
\* failed, or has left no entry in either direction, the call fails with
\* RateUnavailableError; a rate that is returned is that of a snapshot entry.
C16_MissingEntry ==
    [][\A t \in Threads :
         /\ (Left(t) /\ out'[t].result.refreshes = 0) => Asked(t).found
         /\ (Resumes(t) /\ caller[t].frame = "missing")
            => ((out[t].exc # "none" \/ ~Stored(t).found)
                   => Fails(t, "RateUnavailableError"))
         /\ (Left(t) /\ out'[t].exc = "none")
            => (Asked(t).found /\ out'[t].result.rate = Asked(t).rate)]_vars

\* --------------------------------------------------------------------- C17
\* C17: the TTL switched off.  With ttl_seconds <= 0, get_exchange_rate on a
\* pair that has an entry (direct or inverse) starts no run_update and
\* returns the rate of the entry, whatever its updated_at, and no call fails
\* with the stale-data error.
C17_TtlDisabled ==
    [][\A t \in Threads :
         /\ (StartsRefresh(t) /\ caller'[t].ttl_seconds <= 0) => ~Found(t).found
         /\ (Left(t) /\ pc[t] = "idle" /\ out'[t].result.ttl_seconds <= 0)
            => /\ out'[t].exc = "none"
               /\ Asked(t).found
               /\ out'[t].result.rate = Asked(t).rate
               /\ out'[t].result.updated_at = Asked(t).updated_at
         /\ (Left(t) /\ out'[t].result.ttl_seconds <= 0)
            => out'[t].exc # "ApiRequestError"]_vars

\* a rate whose updated_at is no instant was returned, with no refresh
C17_Witness ==
    /\ out["fg"].call = "get_exchange_rate"
    /\ out["fg"].exc = "none"
    /\ out["fg"].result.ttl_seconds <= 0
    /\ out["fg"].result.refreshes = 0
    /\ out["fg"].result.updated_at = Garbage

\* --------------------------------------------------------------------- C18
\* C18: an entry whose updated_at is missing, is no string or is no ISO-8601
\* instant is stale, never fresh.  With ttl_seconds > 0, _is_stale answers
\* True for it; get_exchange_rate does not return its rate without a
\* refresh, and when the entry is still such after the refresh the call
\* refreshes once more (on the missing-entry path) or fails.
C18_MalformedIsStale ==
    [][\A t \in Threads :
         /\ \A ttl_seconds \in 1..MaxTtl, clock \in Instants :
                /\ _is_stale(None, ttl_seconds, clock)
                /\ _is_stale("", ttl_seconds, clock)
                /\ _is_stale(Garbage, ttl_seconds, clock)
         /\ (Left(t) /\ pc[t] = "idle" /\ out'[t].result.ttl_seconds > 0)
            => Parsed(Asked(t).updated_at).ok
         /\ (/\ Resumes(t)
             /\ caller[t].ttl_seconds > 0
             /\ Stored(t).found
             /\ ~Parsed(Stored(t).updated_at).ok)
            => IF caller[t].frame = "missing" /\ out[t].exc = "none"
               THEN pc'[t] = "fetch" /\ caller'[t].refreshes = 2
               ELSE out'[t].call = "get_exchange_rate" /\ out'[t].exc # "none"]_vars

\* the entry had an updated_at that is no instant, it is the same after the
\* refresh, and the call has failed with the stale-data error
C18_Witness ==
    /\ out["fg"].call = "get_exchange_rate"
    /\ out["fg"].exc = "ApiRequestError"
    /\ out["fg"].result.ttl_seconds > 0
    /\ out["fg"].result.refreshes = 1
    /\ "BTC_USD" \in DOMAIN log.initial
    /\ log.initial["BTC_USD"].updated_at = Garbage
    /\ Snapshot.pairs = log.initial
    /\ Len(log.seq) > 0

\* --------------------------------------------------------------------- C19
\* C19: the identity rate.  For every currency X the read of (X, X) gives
\* 1.0 in every state of the cache: Database.get_rate does, and every
\* get_exchange_rate(X, X) that has ended has returned the rate 1.0.
C19_IdentityRate ==
    /\ \A X \in Currencies : get_rate(rates, X, X) = [found |-> TRUE, rate |-> Float(1)]
    /\ \A t \in Threads :
          (/\ out[t].call = "get_exchange_rate"
           /\ out[t].result.from_currency = out[t].result.to_currency)
          => (out[t].exc = "none" /\ out[t].result.rate = Float(1))

\* --------------------------------------------------------------------- C20
\* C20: reciprocal lookup.  When of the two keys of a pair only A_B is
\* stored, with a positive rate r, the read of (A, B) gives r and the read of
\* (B, A) gives 1/r, both with the updated_at of the entry; when A_B and B_A
\* are both stored, the read of (A, B) gives the entry A_B.  So read
\* RateUseCases._load_pair_rate and Database.get_rate.
C20_ReciprocalLookup ==
    \A t, u \in Threads :
        (/\ out[t].call = "lookup"
         /\ out[u].call = "lookup"
         /\ out[t].result.from_currency = out[u].result.to_currency
         /\ out[t].result.to_currency = out[u].result.from_currency
         /\ out[t].result.from_currency # out[t].result.to_currency)
        => LET pairs == load_rates(rates).pairs
               A_B == Pair(out[t].result.from_currency, out[t].result.to_currency)
               B_A == Pair(out[t].result.to_currency, out[t].result.from_currency)
               direct == out[t].result
               reverse == out[u].result
           IN  /\ (A_B \in DOMAIN pairs /\ B_A \notin DOMAIN pairs /\ pairs[A_B].rate.n > 0)
                  => /\ direct.pair_data =
                            [found |-> TRUE, rate |-> pairs[A_B].rate,
                             updated_at |-> pairs[A_B].updated_at]
                     /\ reverse.pair_data =
                            [found |-> TRUE, rate |-> Inverse(pairs[A_B].rate),
                             updated_at |-> pairs[A_B].updated_at]
                     /\ direct.rate = [found |-> TRUE, rate |-> pairs[A_B].rate]
                     /\ reverse.rate = [found |-> TRUE, rate |-> Inverse(pairs[A_B].rate)]
               /\ (A_B \in DOMAIN pairs /\ B_A \in DOMAIN pairs)
                  => /\ direct.pair_data =
                            [found |-> TRUE, rate |-> pairs[A_B].rate,
                             updated_at |-> pairs[A_B].updated_at]
                     /\ direct.rate = [found |-> TRUE, rate |-> pairs[A_B].rate]

\* both keys are stored with rates that are not each other's inverse, and
\* both reads were made
C20_Witness ==
    /\ out["fg"].call = "lookup"
    /\ out["bg"].call = "lookup"
    /\ out["fg"].result.from_currency = "BTC"
    /\ out["fg"].result.to_currency = "USD"
    /\ out["bg"].result.from_currency = "USD"
    /\ out["bg"].result.to_currency = "BTC"
    /\ LookupKeys \subseteq DOMAIN load_rates(rates).pairs
    /\ out["fg"].result.pair_data.rate = Float(MaxRate)
    /\ out["bg"].result.pair_data.rate = Float(MaxRate)

\* --------------------------------------------------------------------- C21
\* C21: last_refresh is never null after a completed cycle.  The step that
\* computes last_refresh gives a value that is not None, and the current
\* instant when no sample was collected; the run_update that returns has that
\* value in its UpdateResult and in the snapshot file.
C21_LastRefreshNeverNull ==
    [][\A t \in Threads :
         /\ (pc[t] = "merge" /\ pc'[t] = "snap_open")
            => /\ loc'[t].last_refresh # None
               /\ loc[t].aggregated = <<>> => loc'[t].last_refresh = _utc_now_iso(now)
         /\ (pc[t] = "return" /\ pc'[t] # "return")
            => /\ out'[t].exc = "none"
               /\ out'[t].result.last_refresh # None
               /\ out'[t].result.last_refresh = loc[t].last_refresh
               /\ Snapshot.last_refresh = loc[t].last_refresh]_vars

\* both clients have answered with no quote, there was no snapshot, and the
\* cycle, whose last_refresh was computed at instant 1, has returned
C21_Witness ==
    /\ out["fg"].call = "run_update"
    /\ out["fg"].exc = "none"
    /\ out["fg"].invoked = Clients
    /\ out["fg"].errors = <<>>
    /\ log.initial = NoPairs
    /\ log.seq = <<>>
    /\ cycles = 1
    /\ Snapshot = [pairs |-> NoPairs, last_refresh |-> Iso(1)]
    /\ out["fg"].result.last_refresh = Iso(1)

\* --------------------------------------------------------------------- C22
\* C22: the last_refresh rule.  The last_refresh a cycle computes is the
\* latest of the timestamps of the samples it collected; when the cycle
\* accepted no sample, because it collected none or because each one lost
\* against a newer stored entry, it is the current instant.  (Stated for
\* cycles whose samples all carry an instant as timestamp.)
C22_LastRefreshRule ==
    [][\A t \in Threads :
         (/\ Merges(t)
          /\ \A i \in DOMAIN Decided : Parsed(Decided[i].sample.timestamp).ok)
         => IF \A i \in DOMAIN Decided : ~Decided[i].accepted
            THEN loc'[t].last_refresh = _utc_now_iso(now)
            ELSE /\ \E i \in DOMAIN Decided :
                        loc'[t].last_refresh = Decided[i].sample.timestamp
                 /\ \A i \in DOMAIN Decided :
                        Parsed(loc'[t].last_refresh).t
                            >= Parsed(Decided[i].sample.timestamp).t]_vars

\* --------------------------------------------------------------------- C23
\* C23: history records every collected sample.  When run_update returns,
\* the history file holds, for every sample the cycle collected, accepted
\* into the snapshot or not, a record with the id pair + "_" + timestamp.
C23_HistoryHoldsCollected ==
    [][\A t \in Threads :
         (pc[t] = "return" /\ pc'[t] # "return")
         => /\ out'[t].exc = "none"
            /\ \A i \in DOMAIN loc[t].aggregated :
                   LET sample == loc[t].aggregated[i]
                   IN  SamplePair(sample) \o "_" \o sample.timestamp \in Ids(History')]_vars

\* a sample lost against a newer entry, no other sample has its id, and the
\* id is in the history after the cycle's return
C23_Witness ==
    /\ pc["fg"] = "idle"
    /\ out["fg"].call = "run_update"
    /\ out["fg"].exc = "none"
    /\ \E i \in DOMAIN log.seq :
         /\ ~log.seq[i].accepted
         /\ Parsed(log.seq[i].sample.timestamp).ok
         /\ \A j \in DOMAIN log.seq :
                j # i => log.seq[j].sample.timestamp # log.seq[i].sample.timestamp
         /\ HistoryRecord(log.seq[i].sample).id \in Ids(History)

\* --------------------------------------------------------------------- C24
\* C24: idempotent start.  Under any sequence of start() and stop() calls at
\* most one loop thread is alive, a thread is created only when none is
\* alive, and a start() that finds the loop running leaves the thread, the
\* event and the running cycle as they are.
C24_IdempotentStart ==
    [][/\ Cardinality(sched'.alive) <= 1
       /\ sched'.alive \ sched.alive # {} => sched.alive = {}
       /\ Called("start_noop")
          => /\ sched.alive # {}
             /\ sched' = [sched EXCEPT !.last = "start_noop"]
             /\ UNCHANGED <<pc, loc, fd, caller, out, cycles, rates, hist>>]_vars

\* start() was called while the thread was writing the snapshot
C24_Witness ==
    /\ sched.last = "start_noop"
    /\ sched._thread # None
    /\ sched.alive = {sched._thread}
    /\ pc[sched._thread] = "snap_write"

\* --------------------------------------------------------------------- C25
\* C25: stop leaves no detached work.  When stop() returns, no loop thread
\* is alive and no thread is in a scheduled run_update; while the scheduler
\* holds no thread none begins; stop() on a scheduler that holds no thread
\* changes nothing.
C25_StopLeavesNothing ==
    [][/\ Called("stopped")
          => /\ sched'.alive = {}
             /\ \A u \in Threads : pc'[u] = "idle"
       /\ (sched'._thread = None /\ sched'.ctl = "idle")
          => /\ sched'.alive = {}
             /\ \A u \in Threads : pc'[u] = "idle"
       /\ \A u \in Threads : BeginsCycle(u) => sched._thread = u
       /\ Called("stop_noop")
          => /\ sched' = [sched EXCEPT !.last = "stop_noop"]
             /\ UNCHANGED <<pc, loc, fd, caller, out, cycles, rates, hist>>]_vars

\* stop() has returned after the loop had made one cycle, and more were to
\* come
C25_Witness ==
    /\ sched.last = "stopped"
    /\ sched._thread = None
    /\ cycles = 1
    /\ \E u \in Threads : out[u].call = "run_update" /\ out[u].exc = "none"

\* --------------------------------------------------------------------- C26
\* C26: the scheduler survives failed cycles.  Whatever makes a scheduled
\* run_update fail, provider failures or a file that cannot be written, the
\* loop thread stays alive and goes on to wait for the next interval.
C26_SurvivesFailedCycles ==
    [][\A u \in Threads :
         (pc[u] = "loop_resume" /\ pc'[u] # "loop_resume")
         => /\ u \in sched'.alive
            /\ pc'[u] = "loop_wait"]_vars

\* --------------------------------------------------------------------- C27
\* C27: cooperative cancellation.  A stop request does not interrupt a
\* scheduled run_update: the cycle is left only by its return, with snapshot
\* and history written, or by its own exception, and the thread is alive
\* then; the thread ends at the test of the loop, when the event is set, or
\* by an exception of the cycle; no cycle begins with the event set.
C27_CooperativeCancellation ==
    [][\A u \in Threads :
         /\ EndsCycle(u)
            => /\ pc'[u] = "loop_resume"
               /\ u \in sched'.alive
               /\ pc[u] = "return" \/ out'[u].exc # "none"
         /\ (pc[u] = "return" /\ pc'[u] = "loop_resume")
            => /\ out'[u].exc = "none"
               /\ Snapshot.pairs = loc[u].merged_pairs
               /\ \A i \in DOMAIN loc[u].history_records :
                      loc[u].history_records[i].id \in Ids(History)
         /\ BeginsCycle(u) => ~sched._stop_event
         /\ (pc[u] = "loop_test" /\ pc'[u] # "loop_test" /\ sched._stop_event)
            => u \notin sched'.alive
         /\ (u \in sched.alive /\ u \notin sched'.alive)
            => \/ pc[u] = "loop_test" /\ sched._stop_event
               \/ pc[u] = "loop_resume" /\ caller[u].refreshed # "none"]_vars

\* stop() waits in join() while the cycle is at the rename of the history
C27_Witness ==
    /\ sched.ctl = "join"
    /\ sched._stop_event
    /\ sched._thread # None
    /\ pc[sched._thread] = "hist_rename"

\* --------------------------------------------------------------------- C28
\* C28: corruption is recovered as empty.  On a snapshot file that is
\* missing, is no JSON or is of the wrong top-level type, load_snapshot
\* raises nothing and gives the empty table; on such a history file
\* load_history raises nothing and gives the empty list.  A run_update that
\* finds such files merges as on an empty table, appends to an empty
\* history, is left by no exception once it has collected a sample, and
\* returns with both files written.
C28_CorruptionIsEmpty ==
    [][\A t \in Threads :
         /\ DamagedSnapshot(rates.target)
            => (ReadError(rates) = "none" /\ load_snapshot(rates) = EmptySnapshot)
         /\ DamagedHistory(hist.target)
            => (ReadError(hist) = "none" /\ load_history(hist) = <<>>)
         /\ (Merges(t) /\ DamagedSnapshot(rates.target))
            => LET m == Merge(NoPairs, loc[t].aggregated, now)
               IN  /\ loc'[t].snapshot = EmptySnapshot
                   /\ loc'[t].merged_pairs = m.merged_pairs
                   /\ loc'[t].updated_pairs = m.updated_pairs
                   /\ loc'[t].history_records = m.history_records
         /\ (pc[t] = "hist_load" /\ pc'[t] = "hist_open" /\ DamagedHistory(hist.target))
            => loc'[t].history = AppendNew(<<>>, loc[t].history_records)
         /\ (pc[t] \in CyclePcs \ {"fetch", "return"} /\ loc[t].aggregated # <<>>)
            => pc'[t] \in CyclePcs
         /\ (pc[t] = "return" /\ pc'[t] # "return")
            => /\ out'[t].exc = "none"
               /\ Snapshot = [pairs |-> loc[t].merged_pairs,
                              last_refresh |-> loc[t].last_refresh]
               /\ loc[t].history_records # <<>> => History = loc[t].history]_vars

\* --------------------------------------------------------------------- C29
\* C29: the persisted snapshot format.  The rates file, whenever it is a
\* JSON document, is an object with the two top-level keys "pairs" and
\* "last_refresh", and every rate entry stands under "pairs", with the
\* fields rate, updated_at and source.
C29_SnapshotFormat ==
    IsJson(rates.target)
    => /\ JsonOf(rates.target).fmt = "nested"
       /\ \A key \in DOMAIN JsonOf(rates.target).pairs :
              DOMAIN JsonOf(rates.target).pairs[key] = {"rate", "updated_at", "source"}

\* --------------------------------------------------------------------- C30
\* C30: concurrent cycles do not lose a fresher value.  Two run_update, one
\* of the scheduler's thread and one of a foreground refresh, have collected
\* the samples A and B of one pair, A.timestamp < B.timestamp, and both have
\* returned: whatever the interleaving of their loads and writes, the entry
\* of the pair in the snapshot carries B's rate and timestamp.
C30_NoLostUpdate ==
    \A p \in PairKeys :
        LET S == Seen(p)
        IN  (/\ \A t \in Threads :
                   /\ pc[t] = "idle"
                   /\ out[t].call = "run_update"
                   /\ out[t].exc = "none"
             /\ Len(S) = 2
             /\ Parsed(S[1].sample.timestamp).ok
             /\ Parsed(S[2].sample.timestamp).ok
             /\ Parsed(S[1].sample.timestamp).t # Parsed(S[2].sample.timestamp).t)
            => LET B == IF Parsed(S[1].sample.timestamp).t > Parsed(S[2].sample.timestamp).t
                        THEN S[1].sample ELSE S[2].sample
               IN  /\ p \in DOMAIN Snapshot.pairs
                   /\ Snapshot.pairs[p].rate = B.rate
                   /\ Snapshot.pairs[p].updated_at = B.timestamp

\* --------------------------------------------------------------------- C31
\* C31: concurrent cycles do not lose history.  After two run_update on the
\* same history file have both returned, whatever the interleaving of their
\* loads and writes, the history holds a record for every sample either run
\* collected.
C31_NoLostHistory ==
    (\A t \in Threads :
        /\ pc[t] = "idle"
        /\ out[t].call = "run_update"
        /\ out[t].exc = "none")
    => \A i \in DOMAIN log.seq : HistoryRecord(log.seq[i].sample).id \in Ids(History)

\* --------------------------------------------------------------------- C32
\* C32: updated_pairs is exactly the set of written pairs.  When the merge
\* loop of a cycle ends, updated_pairs holds a pair key if and only if a
\* sample of the pair was accepted in this cycle, each key once, in the order
\* of the first acceptances; and a sample whose timestamp is an instant was
\* accepted if and only if, when its turn came, the table had no entry of the
\* pair with a parseable updated_at or the sample was not older than it (the
\* entry being the last sample accepted before it in the cycle, else the
\* entry of the loaded snapshot).
C32_UpdatedPairs ==
    [][Merges("fg") =>
        LET d == Decided
            u == loc'["fg"].updated_pairs
            took(p) == {i \in DOMAIN d : SamplePair(d[i].sample) = p /\ d[i].accepted}
            first(p) == CHOOSE i \in took(p) : \A j \in took(p) : i <= j
            entry_ts(i) ==
                LET p == SamplePair(d[i].sample)
                    before == {j \in took(p) : j < i}
                IN  IF before # {}
                    THEN d[CHOOSE j \in before : \A k \in before : k <= j].sample.timestamp
                    ELSE IF p \in DOMAIN Snapshot.pairs
                    THEN Snapshot.pairs[p].updated_at
                    ELSE None
        IN  /\ Range(u) = {SamplePair(d[i].sample) : i \in {j \in DOMAIN d : d[j].accepted}}
            /\ \A i, j \in DOMAIN u : (i < j) => (u[i] # u[j] /\ first(u[i]) < first(u[j]))
            /\ \A i \in DOMAIN d :
                 Parsed(d[i].sample.timestamp).ok =>
                    (d[i].accepted <=>
                        (\/ ~Parsed(entry_ts(i)).ok
                         \/ Parsed(d[i].sample.timestamp).t >= Parsed(entry_ts(i)).t))]_vars

\* the merge has ended with EUR_USD before BTC_USD in updated_pairs, the first
\* collected sample, of BTC_USD, having been discarded
C32_Witness ==
    /\ pc["fg"] = "snap_open"
    /\ loc["fg"].updated_pairs = <<"EUR_USD", "BTC_USD">>
    /\ Len(log.seq) = 3
    /\ SamplePair(log.seq[1].sample) = "BTC_USD"
    /\ ~log.seq[1].accepted

\* --------------------------------------------------------------------- C33
\* C33: the outcome report is complete and consistent.  In every UpdateResult
\* that run_update returns, source_stats has one key per active client and no
\* other; errors holds one {source, message} entry for each client that
\* failed, whose count is 0 and from which no sample was collected, and none
\* for the others, whose count is the number of samples collected from them.
\* With an empty snapshot and a single collected sample, updated_pairs is
\* that sample's pair.
C33_OutcomeReport ==
    [][\A t \in Threads :
        (pc[t] = "return" /\ pc'[t] # "return") =>
            LET r == out'[t].result
                collected == loc[t].aggregated
                from(c) == Len(SelectSeq(collected, LAMBDA s : s.source = c))
                failed(c) == {i \in DOMAIN r.errors : r.errors[i].source = c}
            IN  /\ out'[t].exc = "none"
                /\ DOMAIN r.source_stats = Range(loc[t].active)
                /\ \A i \in DOMAIN r.errors :
                      /\ DOMAIN r.errors[i] = {"source", "message"}
                      /\ r.errors[i].source \in Range(loc[t].active)
                /\ \A c \in Range(loc[t].active) :
                      /\ Cardinality(failed(c)) <= 1
                      /\ failed(c) # {} => (r.source_stats[c] = 0 /\ from(c) = 0)
                      /\ failed(c) = {} => r.source_stats[c] = from(c)
                /\ (loc[t].snapshot.pairs = NoPairs /\ Len(collected) = 1)
                      => r.updated_pairs = <<SamplePair(collected[1])>>]_vars

\* the example of the claim: an empty snapshot, CoinGecko has returned one
\* BTC_USD sample and ExchangeRate-API has failed
C33_Witness ==
    /\ out["fg"].call = "run_update"
    /\ out["fg"].exc = "none"
    /\ out["fg"].result.updated_pairs = <<"BTC_USD">>
    /\ out["fg"].result.errors = <<[source |-> ExchangeRateApi, message |-> "detail"]>>
    /\ out["fg"].result.source_stats[CoinGecko] = 1
    /\ out["fg"].result.source_stats[ExchangeRateApi] = 0
    /\ log.initial = NoPairs
    /\ Len(log.seq) = 1

\* --------------------------------------------------------------------- C34
\* C34: phase ordering within one cycle.  load_snapshot happens when the
\* fetch_rates call of every active client has returned or failed, and no
\* fetch_rates call starts after it in the cycle; the rates file changes only
\* inside write_snapshot, the history file only inside append_history, and
\* append_history begins and runs with the snapshot file fully written: the
\* file is the dump of the merged table and no temporary file is left.
C34_PhaseOrdering ==
    [][\A t \in Threads :
        /\ Merges(t) =>
              /\ loc[t].invoked = loc[t].active
              /\ \A c \in Range(loc[t].active) :
                    \/ c \in DOMAIN loc[t].source_stats
                    \/ \E i \in DOMAIN loc[t].errors : loc[t].errors[i].source = c
        /\ Invokes(t) => ~Loaded(t)
        /\ (pc[t] # "idle" /\ rates' # rates) => (pc[t] \in SnapPcs /\ hist' = hist)
        /\ (pc[t] # "idle" /\ hist' # hist) => pc[t] \in HistPcs
        /\ pc[t] \in {"hist_load"} \cup HistPcs =>
              /\ rates.target = Dumped(write_snapshot_payload(loc[t].merged_pairs,
                                                              loc[t].last_refresh))
              /\ ~rates.tmp.exists
              /\ rates' = rates]_vars

\* append_history is writing its file in a cycle that has invoked both clients
C34_Witness ==
    /\ pc["fg"] = "hist_write"
    /\ loc["fg"].invoked = Clients
    /\ hist.tmp.exists

\* --------------------------------------------------------------------- C35
\* C35: a rejected cycle changes nothing.  From the call of run_update up to
\* the all-failed test no step touches the rates file or the history file,
\* and the no-provider error and the all-providers-failed error are raised
\* from there: the files are then what they were before the call (for the
\* first cycle, the files the program started with).
C35_RejectedChangesNothing ==
    [][/\ pc["fg"] \in {"idle", "fetch", "merge"} => (rates' = rates /\ hist' = hist)
       /\ (out'["fg"] # out["fg"] /\ out'["fg"].exc = "ApiRequestError") =>
             /\ pc["fg"] \in {"idle", "merge"}
             /\ out'["fg"].result = NoResult
             /\ rates' = rates
             /\ hist' = hist
             /\ cycles' = 1 =>
                   /\ rates' \in {NoFiles, [target |-> SeedFile(0), tmp |-> MissingFile]}
                   /\ hist' = NoFiles]_vars

\* every client of the second cycle has failed, after a first cycle that has
\* written both files
C35_Witness ==
    /\ pc["fg"] = "idle"
    /\ out["fg"].call = "run_update"
    /\ out["fg"].exc = "ApiRequestError"
    /\ out["fg"].invoked = Clients
    /\ cycles = 2
    /\ IsJson(rates.target)
    /\ JsonOf(rates.target).fmt = "flat"
    /\ History # <<>>

\* --------------------------------------------------------------------- C36
\* C36: the merge preserves untouched pairs.  When write_snapshot replaces
\* the rates file, every pair of the snapshot it replaces for which the cycle
\* accepted no sample (none collected, or all discarded) is in the new
\* snapshot with the rate, updated_at and source it had; and the snapshot is
\* still that one when run_update returns.
C36_UntouchedPairsKept ==
    [][/\ (pc["fg"] = "snap_rename" /\ pc'["fg"] = "hist_load") =>
             LET prior == load_snapshot(rates).pairs
                 new == load_snapshot(rates').pairs
                 n == Len(loc["fg"].aggregated)
                 cycle == SubSeq(log.seq, Len(log.seq) - n + 1, Len(log.seq))
                 taken == {SamplePair(cycle[i].sample) :
                              i \in {j \in DOMAIN cycle : cycle[j].accepted}}
             IN  \A p \in DOMAIN prior \ taken :
                    /\ p \in DOMAIN new
                    /\ new[p].rate = prior[p].rate
                    /\ new[p].updated_at = prior[p].updated_at
                    /\ new[p].source = prior[p].source
       /\ pc["fg"] \in {"hist_load", "return"} \cup HistPcs => rates' = rates]_vars

\* run_update has returned; the only BTC_USD sample was discarded, the
\* EUR_USD sample accepted, and the BTC_USD entry is the one of the prior
\* table
C36_Witness ==
    /\ pc["fg"] = "idle"
    /\ out["fg"].exc = "none"
    /\ out["fg"].result.updated_pairs = <<"EUR_USD">>
    /\ \E i \in DOMAIN log.seq :
          SamplePair(log.seq[i].sample) = "BTC_USD" /\ ~log.seq[i].accepted
    /\ "BTC_USD" \in DOMAIN Snapshot.pairs
    /\ Snapshot.pairs["BTC_USD"].source = "SeedData"

\* --------------------------------------------------------------------- C37
\* C37: last_refresh is monotone.  Over sequential cycles, whenever the rates
\* file is replaced, the last_refresh of the new snapshot is not an earlier
\* instant than the last_refresh of the snapshot it replaces.  (Stated for
\* markers that are instants.)
C37_LastRefreshMonotone ==
    [][LET old == load_snapshot(rates).last_refresh
           new == load_snapshot(rates').last_refresh
       IN  (Parsed(old).ok /\ Parsed(new).ok) => Parsed(new).t >= Parsed(old).t]_vars

\* --------------------------------------------------------------------- C38
\* C38: snapshot write/load round trip.  load_snapshot() right after
\* write_snapshot(pairs, last_refresh) returns {pairs: pairs, last_refresh:
\* last_refresh}, and Database.load_rates() on the same file returns the same
\* pairs and the same last_refresh.
C38_RoundTrip ==
    out["fg"].call = "load" =>
        LET written == [pairs |-> loc["fg"].merged_pairs,
                        last_refresh |-> loc["fg"].last_refresh]
        IN  /\ out["fg"].result.load_snapshot = written
            /\ out["fg"].result.load_rates = written

\* a table of two entries and no marker was written over the seeded file, in
\* the flat layout, and read back
C38_Witness ==
    /\ out["fg"].call = "load"
    /\ DOMAIN loc["fg"].merged_pairs = SeedPairs
    /\ loc["fg"].last_refresh = None
    /\ log.initial # NoPairs
    /\ JsonOf(rates.target).fmt = "flat"
    /\ DOMAIN out["fg"].result.load_rates.pairs = SeedPairs

\* --------------------------------------------------------------------- C39
\* C39: stop terminates.  Under fair scheduling every stop() that waits in
\* join() returns; a wait() that comes back while the stop event is set takes
\* no time, and no scheduled cycle begins once the event is set.
C39_StopTerminates ==
    /\ (sched.ctl = "join") ~> (sched.ctl = "idle" /\ sched.last = "stopped")
    /\ [][\A u \in Threads :
            /\ (pc[u] = "loop_wait" /\ pc'[u] # "loop_wait" /\ sched._stop_event)
                  => now' = now
            /\ BeginsCycle(u) => ~sched._stop_event]_vars

\* stop() has returned at instant 0 after one whole scheduled cycle: the
\* wait of the loop did not last the interval
C39_Witness ==
    /\ sched.last = "stopped"
    /\ sched.ctl = "idle"
    /\ now = 0
    /\ cycles = 1
    /\ out["bg"].call = "run_update"
    /\ out["bg"].exc = "none"
    /\ out["bg"].result.updated_pairs # <<>>

\* --------------------------------------------------------------------- C40
\* C40: periodic refresh.  The thread start() creates goes to the loop test,
\* not to a wait; every scheduled cycle is a run_update with no source
\* filter, on every client; the loop waits only after a cycle, and a wait
\* that the stop event does not end lasts one interval.  Under fair
\* scheduling, while stop() is not called, the first cycle begins, and after
\* each cycle that returned or failed with a provider error another cycle
\* begins (as far as the bounds on cycles and time go).  No two threads are
\* in a scheduled cycle at the same time.
C40_PeriodicRefresh ==
    /\ \A u \in Threads :
          (pc[u] = "loop_test" /\ cycles < MaxCycles)
              ~> (pc[u] = "fetch" \/ sched._stop_event)
    /\ \A u \in Threads :
          (/\ pc[u] = "loop_resume"
           /\ caller[u].refreshed \in {"none", "ApiRequestError"}
           /\ cycles < MaxCycles
           /\ now < MaxTime)
              ~> (pc[u] = "fetch" \/ sched._stop_event)
    /\ [][\A u \in Threads :
            /\ (Called("start") /\ sched'._thread = u) => pc'[u] = "loop_test"
            /\ BeginsCycle(u) =>
                  /\ loc'[u].source_filter = None
                  /\ loc'[u].active = Clients
            /\ (pc[u] # "loop_wait" /\ pc'[u] = "loop_wait") => pc[u] = "loop_resume"
            /\ (pc[u] = "loop_wait" /\ pc'[u] # "loop_wait" /\ ~sched._stop_event)
                  => now' = now + 1
            /\ \A v \in Threads \ {u} : ~(pc'[u] \in CyclePcs /\ pc'[v] \in CyclePcs)]_vars

\* the second scheduled cycle has begun, one interval after the first, which
\* failed with a provider error
C40_Witness ==
    /\ sched.last = "start"
    /\ ~sched._stop_event
    /\ cycles = 2
    /\ now = 1
    /\ \E u \in Threads :
          /\ pc[u] = "fetch"
          /\ caller[u].frame = "scheduler"
          /\ caller[u].refreshed = "ApiRequestError"

============================================================================
